---- MODULE Spec2Model ----
(***************************************************************************)
(* Model of the tracking and proximity-alert core of the garbage-truck     *)
(* backend: the truck's cached snapshot and fix history (routes/trucks.py),*)
(* the alert decision engine and the Alert Log (services/alerts.py), the   *)
(* background process_alerts tasks, and the WebSocket connection registry  *)
(* (routes/websocket.py).                                                  *)
(*                                                                         *)
(* Abstractions.  Coordinates are integers in metres on a local grid and   *)
(* the great-circle distance is the grid distance.  datetime.utcnow() and  *)
(* date.today() are observed at day granularity (the variable today).      *)
(* One truck (id TRUCK_ID) serves zone 1.                                  *)
(* The admin routes (routes/zones.py, routes/trucks.py) are modelled on    *)
(* the zones table and the zone_id column of the trucks table.             *)
(***************************************************************************)
EXTENDS Integers, Sequences, FiniteSets, TLC

VARIABLES
    truck,        \* the Truck row: zone_id, is_active, duty_started_at, snapshot
    history,      \* the truck_locations table, in insertion (id) order
    users,        \* the users table: user id -> User row
    alert_logs,   \* the alert_logs table, in insertion (id) order
    today,        \* the server's calendar date
    tasks,        \* background process_alerts tasks: id -> pc, pending alerts
    dispatched,   \* (user, date, tier) -> number of send_alert invocations
    last_call,    \* the truck route that ran last
    last_sync,    \* the locations array of the latest batch sync request
    user_connections,  \* ConnectionManager: user id -> set of WebSockets
    user_zone,         \* ConnectionManager: user id -> zone id
    zone_users,        \* ConnectionManager: zone id -> set of user ids
    socket,       \* WebSocket -> its handler's position, user and zone
    outbox,       \* WebSocket -> the messages sent to it, by origin
    sender,       \* the send_to_user call in progress, if any
    response,     \* what the latest track_truck request answered
    sync_txn,     \* the sync_offline_locations request in progress, if any
    broadcast,    \* the zone broadcast in progress, if any
    pure_call,    \* a service function called on its own: arguments and result
    zones,        \* the zones table: zone id -> boundary
    trucks,       \* the trucks table's zone assignment: truck id -> zone_id
    admin_call    \* the latest admin request and its answer

store_vars == <<truck, history, users, alert_logs, today, tasks, dispatched,
               last_call, last_sync>>
ws_vars    == <<user_connections, user_zone, zone_users, socket, outbox, sender>>
req_vars   == <<response, sync_txn, broadcast, pure_call>>
admin_vars == <<zones, trucks, admin_call>>
vars       == <<store_vars, ws_vars, req_vars, admin_vars>>

----------------------------------------------------------------------------
(* Bounds *)
NumUsers   == 1
MaxHistory == 2
MaxDay     == 2
MaxTasks   == 2
MaxBatch   == 3
MaxSockets == 2
MaxOutbox  == 1
Slack      == 2
MaxZones   == 2
MaxTrucks  == 2

(* Program constants *)
ALERT_DISTANCE_APPROACHING == 1000
ALERT_DISTANCE_ARRIVING    == 500
ALERT_DISTANCE_HERE        == 100

NULL     == -1          \* Python None / SQL NULL for numbers; "none" for strings
TRUCK_ID == 1

Users   == 1..NumUsers
Days    == 1..MaxDay
TaskIds == 1..MaxTasks
Tiers   == {"approaching", "arriving", "here"}

Abs(x) == IF x < 0 THEN -x ELSE x

----------------------------------------------------------------------------
(* services/location.py *)

haversine_distance(lat1, lng1, lat2, lng2) == Abs(lat1 - lat2) + Abs(lng1 - lng2)

\* the distance tiers with inclusive upper boundaries
determine_truck_status_inclusive(distance_meters, is_active, has_location) ==
    IF ~is_active THEN "offline"
    ELSE IF ~has_location THEN "not_started"
    ELSE IF distance_meters <= ALERT_DISTANCE_HERE THEN "here"
    ELSE IF distance_meters <= ALERT_DISTANCE_ARRIVING THEN "arriving"
    ELSE "approaching"

\* called without previous_distance, as everywhere in the application
determine_truck_status(distance_meters, is_active, has_location) ==
    IF ~is_active THEN "offline"
    ELSE IF ~has_location THEN "not_started"
    ELSE IF distance_meters < ALERT_DISTANCE_HERE THEN "here"
    ELSE IF distance_meters < ALERT_DISTANCE_ARRIVING THEN "arriving"
    ELSE "approaching"

----------------------------------------------------------------------------
(* services/alerts.py: the decision engine *)

priority_map(alert_type) ==
    CASE alert_type = "approaching" -> 1
      [] alert_type = "arriving"    -> 2
      [] alert_type = "here"        -> 3
      [] OTHER                      -> 0

NoAlert == [alert_type |-> "none"]

\* rows of the Alert Log for (user, truck, date)
LogRows(logs, user_id, truck_id, day) ==
    {i \in 1..Len(logs) : /\ logs[i].user_id = user_id
                          /\ logs[i].truck_id = truck_id
                          /\ logs[i].alert_date = day}

\* the tiers without the user's preferred distance
alert_tier_ignores_preference(status, distance, user) ==
    IF status = "here" /\ distance < ALERT_DISTANCE_HERE THEN "here"
    ELSE IF status = "arriving" /\ distance < ALERT_DISTANCE_ARRIVING THEN "arriving"
    ELSE IF /\ status = "approaching"
            /\ distance < ALERT_DISTANCE_APPROACHING THEN "approaching"
    ELSE "none"

\* lines 73-85: the tier the distance qualifies for, "none" if none
alert_tier(status, distance, user) ==
    IF status = "here" /\ distance < ALERT_DISTANCE_HERE THEN "here"
    ELSE IF status = "arriving" /\ distance < ALERT_DISTANCE_ARRIVING THEN "arriving"
    ELSE IF /\ status = "approaching"
            /\ distance < ALERT_DISTANCE_APPROACHING
            /\ distance <= user.alert_distance THEN "approaching"
    ELSE "none"

check_user_alert(logs, day, user_id, user, trk) ==
    IF ~user.alert_enabled THEN NoAlert
    ELSE IF ~trk.is_active \/ trk.last_lat = NULL \/ trk.last_lng = NULL THEN NoAlert
    ELSE IF user.home_lat = NULL \/ user.home_lng = NULL THEN NoAlert
    ELSE
      LET distance   == haversine_distance(trk.last_lat, trk.last_lng,
                                           user.home_lat, user.home_lng)
          status     == determine_truck_status(distance, trk.is_active, TRUE)
          alert_type == alert_tier(status, distance, user)
          rows       == LogRows(logs, user_id, TRUCK_ID, day)
      IN IF alert_type = "none" THEN NoAlert
         ELSE IF \E i \in rows : logs[i].alert_type = alert_type THEN NoAlert
         ELSE IF \E i \in rows :
                    priority_map(logs[i].alert_type) >= priority_map(alert_type)
              THEN NoAlert
         ELSE [alert_type      |-> alert_type,
               user_id         |-> user_id,
               truck_id        |-> TRUCK_ID,
               distance_meters |-> distance]

RECURSIVE alerts_from(_, _, _, _, _)
alerts_from(u, logs, day, usrs, trk) ==
    IF u > NumUsers THEN <<>>
    ELSE LET rest  == alerts_from(u + 1, logs, day, usrs, trk)
             alert == check_user_alert(logs, day, u, usrs[u], trk)
         IN IF /\ usrs[u].zone_id = trk.zone_id
               /\ usrs[u].alert_enabled
               /\ usrs[u].is_active
               /\ alert.alert_type # "none"
            THEN <<alert>> \o rest
            ELSE rest

check_alerts_for_truck(logs, day, usrs, trk) ==
    IF trk.zone_id = NULL THEN <<>>
    ELSE alerts_from(1, logs, day, usrs, trk)

----------------------------------------------------------------------------
(* services/alerts.py: logging and delivery *)

\* a table without the unique index
idx_alert_unique_dropped(logs, row) == TRUE

\* the unique index idx_alert_unique of models.AlertLog
idx_alert_unique(logs, row) ==
    \A i \in 1..Len(logs) :
        ~ /\ logs[i].user_id = row.user_id
          /\ logs[i].truck_id = row.truck_id
          /\ logs[i].alert_date = row.alert_date
          /\ logs[i].alert_type = row.alert_type

\* log_alert: ok = FALSE stands for the IntegrityError raised by db.commit(),
\* which leaves neither the row nor the user's last-alert fields behind
log_alert(logs, usrs, day, alert, delivery_method) ==
    LET row == [user_id         |-> alert.user_id,
                truck_id        |-> alert.truck_id,
                alert_date      |-> day,
                alert_type      |-> alert.alert_type,
                distance_meters |-> alert.distance_meters,
                delivery_method |-> delivery_method]
    IN IF idx_alert_unique(logs, row)
       THEN [ok    |-> TRUE,
             logs  |-> Append(logs, row),
             users |-> [usrs EXCEPT ![alert.user_id].last_alert_type = alert.alert_type,
                                    ![alert.user_id].last_alert_at = day]]
       ELSE [ok |-> FALSE, logs |-> logs, users |-> usrs]

\* does send_alert reach a provider call (an await) for this user
calls_provider(user) ==
    \/ user.alert_type \in {"push", "both"} /\ user.fcm_token
    \/ user.alert_type \in {"missed_call", "both"}

\* send_alert, given what the two providers answer
send_alert(logs, usrs, day, alert, push_ok, call_ok) ==
    LET user         == usrs[alert.user_id]
        push_success == user.alert_type \in {"push", "both"} /\ user.fcm_token /\ push_ok
        call_success == user.alert_type \in {"missed_call", "both"} /\ call_ok
        success      == push_success \/ call_success
        method1      == IF push_success THEN "push" ELSE "sound"
        method       == IF call_success
                        THEN (IF method1 = "sound" THEN "missed_call" ELSE "both")
                        ELSE method1
    IN IF success \/ user.alert_type = "sound"
       THEN log_alert(logs, usrs, day, alert, method)
       ELSE [ok |-> TRUE, logs |-> logs, users |-> usrs]

DispatchKey(alert, day) == <<alert.user_id, day, alert.alert_type>>

Bump(disp, key) == [disp EXCEPT ![key] = IF @ < 2 THEN @ + 1 ELSE @]

\* process_alerts, lines 357-365: the loop over the alerts runs without
\* suspension until a send_alert awaits a provider; an exception ends the task
RECURSIVE run_alerts(_, _, _, _, _)
run_alerts(alerts, logs, usrs, disp, day) ==
    IF alerts = <<>>
    THEN [pc |-> "idle", alerts |-> <<>>, failed |-> FALSE,
          logs |-> logs, users |-> usrs, disp |-> disp]
    ELSE LET alert == Head(alerts)
             disp2 == Bump(disp, DispatchKey(alert, day))
         IN IF calls_provider(usrs[alert.user_id])
            THEN [pc |-> "awaiting", alerts |-> alerts, failed |-> FALSE,
                  logs |-> logs, users |-> usrs, disp |-> disp2]
            ELSE LET r == send_alert(logs, usrs, day, alert, FALSE, FALSE)
                 IN IF ~r.ok
                    THEN [pc |-> "idle", alerts |-> <<>>, failed |-> TRUE,
                          logs |-> logs, users |-> usrs, disp |-> disp2]
                    ELSE run_alerts(Tail(alerts), r.logs, r.users, disp2, day)

\* a reset that does not filter by zone
reset_zone_alerts_everywhere(usrs, zone_id) ==
    [u \in Users |->
        [usrs[u] EXCEPT !.last_alert_type = "none", !.last_alert_at = NULL]]

\* reset_zone_alerts
reset_zone_alerts(usrs, zone_id) ==
    [u \in Users |->
        IF usrs[u].zone_id = zone_id
        THEN [usrs[u] EXCEPT !.last_alert_type = "none", !.last_alert_at = NULL]
        ELSE usrs[u]]

----------------------------------------------------------------------------
(* Initial state *)

FixAt(lat, captured_at) ==
    [lat |-> lat, lng |-> lat \div 100, speed |-> lat \div 10,
     heading |-> lat \div 5, captured_at |-> captured_at]

\* live fixes of the alert scenarios: in the here, arriving and approaching bands
AlertFixes == {FixAt(80, 1), FixAt(300, 1), FixAt(900, 1)}

NewUser(alert_type, fcm_token, alert_distance) ==
    [zone_id |-> 1, home_lat |-> 0, home_lng |-> 0,
     alert_enabled |-> TRUE, alert_distance |-> alert_distance,
     alert_type |-> alert_type, fcm_token |-> fcm_token, is_active |-> TRUE,
     last_alert_type |-> "none", last_alert_at |-> NULL]

UserProfiles ==
    {NewUser("sound", FALSE, 1000), NewUser("push", TRUE, 1000),
     NewUser("push", FALSE, 500),   NewUser("both", FALSE, 1000)}

NewTruck ==
    [zone_id |-> 1, is_active |-> FALSE, duty_started_at |-> NULL,
     last_lat |-> NULL, last_lng |-> NULL, last_speed |-> 0, last_heading |-> 0,
     last_update |-> NULL]

IdleTask == [pc |-> "idle", alerts |-> <<>>, failed |-> FALSE]

DispatchKeys == Users \X Days \X Tiers

Sockets   == 1..MaxSockets
\* a WebSocket and its websocket_tracking handler; fixes_before is the number
\* of history rows at the time the socket was registered; received is the
\* latest inbound message and seq flips with every round of the receive loop
NewSocket == [pc |-> "new", user_id |-> NULL, zone_id |-> NULL, close_code |-> NULL,
              fixes_before |-> NULL, received |-> "none", seq |-> 0]
NoSender  == [pc |-> "idle", user_id |-> NULL, todo |-> <<>>, dead_sockets |-> <<>>]
EmptyDict == [x \in {} |-> NULL]

InitStore ==
    /\ truck = NewTruck
    /\ history = <<>>
    /\ alert_logs = <<>>
    /\ today = 1
    /\ tasks = [k \in TaskIds |-> IdleTask]
    /\ dispatched = [key \in DispatchKeys |-> 0]
    /\ last_call = "none"
    /\ last_sync = <<>>

\* no request is in progress and no tracking response has been given
NoResponse  == [http |-> NULL, status |-> "none", truck |-> FALSE, distance |-> NULL,
                eta |-> FALSE, duty |-> FALSE, should_alert |-> FALSE,
                alert_type |-> "none"]
NoSync      == [pc |-> "idle", truck |-> NewTruck, locations |-> <<>>]
NoBroadcast == [pc |-> "idle", fn |-> "none", zone_id |-> NULL, todo |-> <<>>,
                db_opened |-> FALSE, calls |-> 0]
NoCall      == [pc |-> "idle", fn |-> "none"]
NoAdminCall == [fn |-> "none", truck_id |-> NULL, zone_id |-> NULL, http |-> NULL]

InitRequests ==
    /\ response = NoResponse
    /\ sync_txn = NoSync
    /\ broadcast = NoBroadcast
    /\ pure_call = NoCall

\* the tables are empty after init_db
InitAdmin ==
    /\ zones = EmptyDict
    /\ trucks = EmptyDict
    /\ admin_call = NoAdminCall

InitRegistry ==
    /\ user_connections = EmptyDict
    /\ user_zone = EmptyDict
    /\ zone_users = EmptyDict
    /\ socket = [c \in Sockets |-> NewSocket]
    /\ outbox = [c \in Sockets |-> <<>>]
    /\ sender = NoSender

Init ==
    /\ InitStore
    /\ InitRegistry
    /\ InitAdmin
    /\ InitRequests
    /\ users \in [Users -> UserProfiles]

----------------------------------------------------------------------------
(* routes/trucks.py *)

\* start_duty without its "Already on duty" return
start_duty_restarts ==
    /\ truck' = [truck EXCEPT !.is_active = TRUE, !.duty_started_at = today]
    /\ users' = IF truck.zone_id # NULL
                THEN reset_zone_alerts(users, truck.zone_id)
                ELSE users
    /\ last_call' = IF truck.is_active THEN "start_duty_already" ELSE "start_duty"
    /\ UNCHANGED <<history, alert_logs, today, tasks, dispatched, last_sync, ws_vars, req_vars,
                   admin_vars>>

\* last_call tells the two answers of a duty route apart: "Already on duty" /
\* "Already off duty" and the change of duty
start_duty ==
    /\ IF truck.is_active
       THEN UNCHANGED <<truck, users>>
       ELSE /\ truck' = [truck EXCEPT !.is_active = TRUE, !.duty_started_at = today]
            /\ users' = IF truck.zone_id # NULL
                        THEN reset_zone_alerts(users, truck.zone_id)
                        ELSE users
    /\ last_call' = IF truck.is_active THEN "start_duty_already" ELSE "start_duty"
    /\ UNCHANGED <<history, alert_logs, today, tasks, dispatched, last_sync, ws_vars, req_vars,
                   admin_vars>>

\* a stop that also forgets when the duty began
stop_duty_clears_start ==
    /\ IF ~truck.is_active
       THEN UNCHANGED truck
       ELSE truck' = [truck EXCEPT !.is_active = FALSE, !.duty_started_at = NULL]
    /\ last_call' = IF truck.is_active THEN "stop_duty" ELSE "stop_duty_already"
    /\ UNCHANGED <<history, users, alert_logs, today, tasks, dispatched, last_sync,
                   ws_vars, req_vars, admin_vars>>

stop_duty ==
    /\ IF ~truck.is_active
       THEN UNCHANGED truck
       ELSE truck' = [truck EXCEPT !.is_active = FALSE]
    /\ last_call' = IF truck.is_active THEN "stop_duty" ELSE "stop_duty_already"
    /\ UNCHANGED <<history, users, alert_logs, today, tasks, dispatched, last_sync,
                   ws_vars, req_vars,
                   admin_vars>>

AllTasksIdle == \A k \in TaskIds : tasks[k].pc = "idle"

\* background_tasks.add_task(process_alerts, ...): the lowest free task slot
FreeTask == CHOOSE k \in TaskIds :
                /\ tasks[k].pc = "idle"
                /\ \A j \in TaskIds : tasks[j].pc = "idle" => k <= j

HistoryRow(loc, is_offline_sync) ==
    [latitude |-> loc.lat, longitude |-> loc.lng, speed |-> loc.speed,
     heading |-> loc.heading, captured_at |-> loc.captured_at,
     is_offline_sync |-> is_offline_sync]

\* update_location without the auto-activation of lines 314-317
update_location_keeps_duty(loc) ==
    /\ \E k \in TaskIds : tasks[k].pc = "idle"
    /\ truck' = [truck EXCEPT
                    !.last_lat = loc.lat,
                    !.last_lng = loc.lng,
                    !.last_speed = loc.speed,
                    !.last_heading = loc.heading,
                    !.last_update = today]
    /\ history' = Append(history, HistoryRow(loc, FALSE))
    /\ tasks' = [tasks EXCEPT ![FreeTask] = [pc |-> "queued", alerts |-> <<>>,
                                             failed |-> FALSE]]
    /\ last_call' = "update_location"
    /\ UNCHANGED <<users, alert_logs, today, dispatched, last_sync, ws_vars, req_vars,
                   admin_vars>>

update_location(loc) ==
    /\ \E k \in TaskIds : tasks[k].pc = "idle"
    /\ truck' = [truck EXCEPT
                    !.is_active = TRUE,
                    !.duty_started_at = IF ~truck.is_active THEN today ELSE @,
                    !.last_lat = loc.lat,
                    !.last_lng = loc.lng,
                    !.last_speed = loc.speed,
                    !.last_heading = loc.heading,
                    !.last_update = today]
    /\ history' = Append(history, HistoryRow(loc, FALSE))
    /\ tasks' = [tasks EXCEPT ![FreeTask] = [pc |-> "queued", alerts |-> <<>>,
                                             failed |-> FALSE]]
    /\ last_call' = "update_location"
    /\ UNCHANGED <<users, alert_logs, today, dispatched, last_sync, ws_vars, req_vars,
                   admin_vars>>

\* sorted(request.locations, key=lambda x: x.captured_at) without the sort
unsorted(locations) == locations

\* sorted(request.locations, key=lambda x: x.captured_at): a stable sort
RECURSIVE sorted_by_captured_at(_)
sorted_by_captured_at(locations) ==
    IF locations = <<>> THEN <<>>
    ELSE LET n    == Len(locations)
             x    == locations[n]
             s    == sorted_by_captured_at(SubSeq(locations, 1, n - 1))
             keep == Cardinality({i \in 1..Len(s) : s[i].captured_at <= x.captured_at})
         IN SubSeq(s, 1, keep) \o <<x>> \o SubSeq(s, keep + 1, Len(s))

\* one degree of latitude on the grid, from the Earth radius R of
\* haversine_distance
Degrees(n) == n * 111195

\* schemas.LocationUpdate: the field constraints; a captured_at that does not
\* parse as a datetime is NULL
LocationUpdate(loc) ==
    /\ -Degrees(90) <= loc.lat /\ loc.lat <= Degrees(90)
    /\ -Degrees(180) <= loc.lng /\ loc.lng <= Degrees(180)
    /\ loc.speed >= 0
    /\ loc.heading >= 0 /\ loc.heading <= 360
    /\ loc.captured_at # NULL

\* schemas.LocationBatchSync: the request body is validated as a whole before
\* the route function is called
LocationBatchSync(locations) ==
    /\ Len(locations) >= 1
    /\ \A i \in 1..Len(locations) : LocationUpdate(locations[i])

\* a request body that fails validation is answered 422 and the route
\* function does not run
sync_offline_locations(locations) ==
    /\ IF ~LocationBatchSync(locations)
       THEN /\ last_call' = "sync_offline_locations_422"
            /\ UNCHANGED <<truck, history>>
       ELSE LET sorted_locations == sorted_by_captured_at(locations)
                last == sorted_locations[Len(sorted_locations)]
            IN /\ history' = history \o [i \in 1..Len(sorted_locations) |->
                                            HistoryRow(sorted_locations[i], TRUE)]
               /\ truck' = [truck EXCEPT
                               !.last_lat = last.lat,
                               !.last_lng = last.lng,
                               !.last_speed = last.speed,
                               !.last_heading = last.heading,
                               !.last_update = today,
                               !.is_active = TRUE,
                               !.duty_started_at = IF ~truck.is_active THEN today ELSE @]
               /\ last_call' = "sync_offline_locations"
    /\ last_sync' = locations
    /\ UNCHANGED <<users, alert_logs, today, tasks, dispatched, ws_vars, req_vars,
                   admin_vars>>

\* sync_offline_locations runs in a worker thread, beside the event loop that
\* runs update_location.  Line 379: its session loads the truck row
sync_offline_locations_load(locations) ==
    /\ sync_txn.pc = "idle"
    /\ LocationBatchSync(locations)
    /\ sync_txn' = [pc |-> "loaded", truck |-> truck, locations |-> locations]
    /\ UNCHANGED <<store_vars, ws_vars, response, broadcast, pure_call,
                   admin_vars>>

\* the UPDATE the session flushes on commit: it sets the columns whose new
\* value differs from the value the session loaded, and leaves the others as
\* they are in the table
flush_update(row, loaded, assigned) ==
    [col \in DOMAIN row |->
        IF assigned[col] # loaded[col] THEN assigned[col] ELSE row[col]]

\* lines 387-420: the history rows are inserted, the snapshot assignments are
\* made on the loaded row, and db.commit() flushes both
sync_offline_locations_commit ==
    /\ sync_txn.pc = "loaded"
    /\ LET sorted_locations == sorted_by_captured_at(sync_txn.locations)
           last     == sorted_locations[Len(sorted_locations)]
           loaded   == sync_txn.truck
           assigned == [loaded EXCEPT
                          !.last_lat = last.lat,
                          !.last_lng = last.lng,
                          !.last_speed = last.speed,
                          !.last_heading = last.heading,
                          !.last_update = today,
                          !.is_active = TRUE,
                          !.duty_started_at = IF ~loaded.is_active THEN today ELSE @]
       IN /\ history' = history \o [i \in 1..Len(sorted_locations) |->
                                       HistoryRow(sorted_locations[i], TRUE)]
          /\ truck' = flush_update(truck, loaded, assigned)
    /\ last_call' = "sync_offline_locations"
    /\ last_sync' = sync_txn.locations
    /\ sync_txn' = NoSync
    /\ UNCHANGED <<users, alert_logs, today, tasks, dispatched, ws_vars, response,
                   broadcast, pure_call,
                   admin_vars>>

\* process_alerts from its start to its first suspension
process_alerts(k) ==
    /\ tasks[k].pc = "queued"
    /\ LET alerts == check_alerts_for_truck(alert_logs, today, users, truck)
           r      == run_alerts(alerts, alert_logs, users, dispatched, today)
       IN /\ tasks' = [tasks EXCEPT ![k] = [pc |-> r.pc, alerts |-> r.alerts,
                                            failed |-> r.failed]]
          /\ alert_logs' = r.logs
          /\ users' = r.users
          /\ dispatched' = r.disp
    /\ UNCHANGED <<truck, history, today, last_call, last_sync, ws_vars, req_vars,
                   admin_vars>>

\* a delivery that shares the fix's transaction: when no provider accepts the
\* alert, the fix is rolled back
delivery_returns_rolls_back(k, push_ok, call_ok) ==
    /\ tasks[k].pc = "awaiting"
    /\ LET alert == Head(tasks[k].alerts)
           s     == send_alert(alert_logs, users, today, alert, push_ok, call_ok)
           r     == IF s.ok
                    THEN run_alerts(Tail(tasks[k].alerts), s.logs, s.users,
                                    dispatched, today)
                    ELSE [pc |-> "idle", alerts |-> <<>>, failed |-> TRUE,
                          logs |-> alert_logs, users |-> users, disp |-> dispatched]
       IN /\ tasks' = [tasks EXCEPT ![k] = [pc |-> r.pc, alerts |-> r.alerts,
                                            failed |-> r.failed]]
          /\ alert_logs' = r.logs
          /\ users' = r.users
          /\ dispatched' = r.disp
    /\ history' = IF push_ok \/ call_ok \/ history = <<>>
                  THEN history
                  ELSE SubSeq(history, 1, Len(history) - 1)
    /\ UNCHANGED <<truck, today, last_call, last_sync, ws_vars, req_vars,
                   admin_vars>>

\* the awaited provider calls of send_alert return; the task runs on to its
\* next suspension
delivery_returns(k, push_ok, call_ok) ==
    /\ tasks[k].pc = "awaiting"
    /\ LET alert == Head(tasks[k].alerts)
           s     == send_alert(alert_logs, users, today, alert, push_ok, call_ok)
           r     == IF s.ok
                    THEN run_alerts(Tail(tasks[k].alerts), s.logs, s.users,
                                    dispatched, today)
                    ELSE [pc |-> "idle", alerts |-> <<>>, failed |-> TRUE,
                          logs |-> alert_logs, users |-> users, disp |-> dispatched]
       IN /\ tasks' = [tasks EXCEPT ![k] = [pc |-> r.pc, alerts |-> r.alerts,
                                            failed |-> r.failed]]
          /\ alert_logs' = r.logs
          /\ users' = r.users
          /\ dispatched' = r.disp
    /\ UNCHANGED <<truck, history, today, last_call, last_sync, ws_vars, req_vars,
                   admin_vars>>

\* midnight
new_day ==
    /\ today < MaxDay
    /\ today' = today + 1
    /\ UNCHANGED <<truck, history, users, alert_logs, tasks, dispatched, last_call,
                   last_sync, ws_vars, req_vars,
                   admin_vars>>

\* the runs explored ingest fixes while the history is below its bound
HistoryHasRoom == Len(history) < MaxHistory

Next ==
    \/ start_duty
    \/ stop_duty
    \/ \E loc \in AlertFixes : HistoryHasRoom /\ update_location(loc)
    \/ \E k \in TaskIds : process_alerts(k)
    \/ \E k \in TaskIds, push_ok \in BOOLEAN, call_ok \in BOOLEAN :
          delivery_returns(k, push_ok, call_ok)
    \/ new_day

Spec == Init /\ [][Next]_vars

\* the same system when no fix is ingested while a process_alerts task is
\* still pending: every evaluation then sees the rows of all earlier fixes
NextSeq ==
    \/ start_duty
    \/ stop_duty
    \/ \E loc \in AlertFixes : HistoryHasRoom /\ AllTasksIdle /\ update_location(loc)
    \/ \E k \in TaskIds : process_alerts(k)
    \/ \E k \in TaskIds, push_ok \in BOOLEAN, call_ok \in BOOLEAN :
          delivery_returns(k, push_ok, call_ok)
    \/ new_day

SpecSeq == Init /\ [][NextSeq]_vars

\* live fixes and offline batches with device timestamps in any order
SnapFixes == {FixAt(80, 1), FixAt(300, 2), FixAt(500, 2), FixAt(900, 3)}

RECURSIVE SeqsUpTo(_, _)
SeqsUpTo(S, n) ==
    IF n = 0 THEN {<<>>}
    ELSE LET shorter == SeqsUpTo(S, n - 1)
         IN shorter \cup {Append(q, x) : q \in shorter, x \in S}

Batches == SeqsUpTo(SnapFixes, MaxBatch) \ {<<>>}

InitSnap ==
    /\ InitStore
    /\ InitRegistry
    /\ InitAdmin
    /\ InitRequests
    /\ users = [u \in Users |-> NewUser("sound", FALSE, 1000)]

NextSnap ==
    \/ stop_duty
    \/ \E loc \in SnapFixes : HistoryHasRoom /\ update_location(loc)
    \/ \E locations \in Batches : HistoryHasRoom /\ sync_offline_locations(locations)
    \/ \E k \in TaskIds : process_alerts(k)

SpecSnap == InitSnap /\ [][NextSnap]_vars

\* a user of the truck's zone, and a user of zone 2 whom that zone's truck
\* has alerted
DutyProfiles ==
    {NewUser("sound", FALSE, 1000),
     [NewUser("sound", FALSE, 1000) EXCEPT
         !.zone_id = 2, !.home_lat = 6000,
         !.last_alert_type = "here", !.last_alert_at = 1]}

InitDuty ==
    /\ InitStore
    /\ InitRegistry
    /\ InitAdmin
    /\ InitRequests
    /\ users \in [Users -> DutyProfiles]

\* every way the truck goes on and off duty
NextDuty ==
    \/ start_duty
    \/ stop_duty
    \/ \E loc \in AlertFixes : HistoryHasRoom /\ update_location(loc)
    \/ \E locations \in SeqsUpTo(AlertFixes, MaxBatch) \ {<<>>} :
          HistoryHasRoom /\ sync_offline_locations(locations)
    \/ \E k \in TaskIds : process_alerts(k)
    \/ new_day

SpecDuty == InitDuty /\ [][NextDuty]_vars

\* a fix whose captured_at is not a datetime, and one north of the pole
BadTimestamp == [FixAt(500, 2) EXCEPT !.captured_at = NULL]
OutOfRange   == [FixAt(80, 3) EXCEPT !.lat = Degrees(91)]

BatchFixes == {FixAt(80, 1), FixAt(300, 2), BadTimestamp, OutOfRange}

\* batch syncs whose fixes may fail validation
NextBatch ==
    \/ stop_duty
    \/ \E locations \in SeqsUpTo(BatchFixes, MaxBatch) \ {<<>>} :
          HistoryHasRoom /\ sync_offline_locations(locations)

SpecBatch == InitSnap /\ [][NextBatch]_vars

\* a fix of a standing truck, with the schema's default speed and heading
StillFix == [lat |-> 40, lng |-> 0, speed |-> 0, heading |-> 0, captured_at |-> 3]

TornFixes == {FixAt(80, 1), FixAt(300, 2), StillFix}

\* live fixes on the event loop while a batch sync runs in its thread
NextTorn ==
    \/ stop_duty
    \/ \E loc \in TornFixes : HistoryHasRoom /\ update_location(loc)
    \/ \E locations \in SeqsUpTo(TornFixes, MaxBatch) \ {<<>>} :
          HistoryHasRoom /\ sync_offline_locations_load(locations)
    \/ sync_offline_locations_commit
    \/ \E k \in TaskIds : process_alerts(k)

SpecTorn == InitSnap /\ [][NextTorn]_vars

----------------------------------------------------------------------------
(* routes/websocket.py: ConnectionManager *)

dict_put(d, k, v) == [x \in (DOMAIN d) \cup {k} |-> IF x = k THEN v ELSE d[x]]
dict_del(d, k)    == [x \in (DOMAIN d) \ {k} |-> d[x]]
dict_get(d, k, default) == IF k \in DOMAIN d THEN d[k] ELSE default

Registry == [uc |-> user_connections, uz |-> user_zone, zu |-> zone_users]

\* ConnectionManager.connect, after websocket.accept()
connect(reg, websocket, user_id, zone_id) ==
    [uz |-> dict_put(reg.uz, user_id, zone_id),
     uc |-> dict_put(reg.uc, user_id, dict_get(reg.uc, user_id, {}) \cup {websocket}),
     zu |-> dict_put(reg.zu, zone_id, dict_get(reg.zu, zone_id, {}) \cup {user_id})]

\* ConnectionManager._remove_connection
remove_connection(reg, websocket, user_id) ==
    IF user_id \notin DOMAIN reg.uc THEN reg
    ELSE LET remaining == reg.uc[user_id] \ {websocket}
         IN IF remaining # {}
            THEN [reg EXCEPT !.uc = dict_put(reg.uc, user_id, remaining)]
            ELSE LET zone_id == dict_get(reg.uz, user_id, NULL)
                 IN [uc |-> dict_del(reg.uc, user_id),
                     uz |-> dict_del(reg.uz, user_id),
                     zu |-> IF zone_id # NULL /\ zone_id \in DOMAIN reg.zu
                            THEN (IF reg.zu[zone_id] \ {user_id} = {}
                                  THEN dict_del(reg.zu, zone_id)
                                  ELSE dict_put(reg.zu, zone_id,
                                                reg.zu[zone_id] \ {user_id}))
                            ELSE reg.zu]

\* ConnectionManager.disconnect
disconnect(reg, websocket, user_id) == remove_connection(reg, websocket, user_id)

SetRegistry(reg) ==
    /\ user_connections' = reg.uc
    /\ user_zone' = reg.uz
    /\ zone_users' = reg.zu

RECURSIVE remove_all(_, _, _)
remove_all(reg, dead_sockets, user_id) ==
    IF dead_sockets = <<>> THEN reg
    ELSE remove_all(remove_connection(reg, Head(dead_sockets), user_id),
                    Tail(dead_sockets), user_id)

\* list(self.user_connections[user_id]): the set in some iteration order
Orders(S) ==
    {q \in SeqsUpTo(S, Cardinality(S)) :
        /\ Len(q) = Cardinality(S)
        /\ \A i, j \in 1..Len(q) : i # j => q[i] # q[j]}

CanSend(c) == Len(outbox[c]) < MaxOutbox
Sent(c, kind) == [outbox EXCEPT ![c] = Append(@, kind)]

\* send_to_user up to its first await ws.send_json
send_to_user(user_id) ==
    /\ sender.pc = "idle"
    /\ IF user_id \notin DOMAIN user_connections
       THEN UNCHANGED sender
       ELSE \E todo \in Orders(user_connections[user_id]) :
               sender' = [pc |-> "sending", user_id |-> user_id, todo |-> todo,
                          dead_sockets |-> <<>>]
    /\ UNCHANGED <<store_vars, req_vars, admin_vars,
                   user_connections, user_zone, zone_users, socket, outbox>>

\* the users a broadcast loop still has to serve, from the first one that
\* send_to_user has a connection list for (it returns at once for the others)
RECURSIVE next_connected(_, _)
next_connected(uc, todo) ==
    IF todo = <<>> THEN <<>>
    ELSE IF Head(todo) \in DOMAIN uc THEN todo
    ELSE next_connected(uc, Tail(todo))

\* the broadcast loop from one await of send_to_user to the next: the sender
\* starts on the next connected user, or the broadcast is over
broadcast_loop(call, uc, todo) ==
    LET rest == next_connected(uc, todo)
    IN IF rest = <<>>
       THEN /\ sender' = NoSender
            /\ broadcast' = [call EXCEPT !.pc = "idle", !.todo = <<>>]
       ELSE /\ \E order \in Orders(uc[Head(rest)]) :
                  sender' = [pc |-> "sending", user_id |-> Head(rest),
                             todo |-> order, dead_sockets |-> <<>>]
            /\ broadcast' = [call EXCEPT !.pc = "sending", !.todo = Tail(rest)]

\* send_to_user when it stops at the first failed send
send_stops_at_failure(ok) ==
    LET ws   == Head(sender.todo)
        dead == IF ok THEN sender.dead_sockets ELSE Append(sender.dead_sockets, ws)
    IN [todo |-> IF ok THEN Tail(sender.todo) ELSE <<>>, dead_sockets |-> dead]

\* one ws.send_json of the loop returns (ok) or raises (~ok)
send_loop(ok) ==
    LET ws   == Head(sender.todo)
        dead == IF ok THEN sender.dead_sockets ELSE Append(sender.dead_sockets, ws)
    IN [todo |-> Tail(sender.todo), dead_sockets |-> dead]

\* the awaited ws.send_json returns; after the last one the dead sockets are
\* removed and send_to_user returns
send_returns(ok) ==
    /\ sender.pc = "sending"
    /\ LET ws == Head(sender.todo)
           r  == send_loop(ok)
       IN /\ ok => socket[ws].pc \in {"registered", "open"} /\ CanSend(ws)
          /\ outbox' = IF ok THEN Sent(ws, "zone_message") ELSE outbox
          /\ IF r.todo = <<>>
             THEN LET reg == remove_all(Registry, r.dead_sockets, sender.user_id)
                  IN /\ SetRegistry(reg)
                     /\ IF broadcast.pc = "sending"
                        THEN broadcast_loop(broadcast, reg.uc, broadcast.todo)
                        ELSE sender' = NoSender /\ UNCHANGED broadcast
             ELSE /\ sender' = [sender EXCEPT !.todo = r.todo,
                                              !.dead_sockets = r.dead_sockets]
                  /\ UNCHANGED <<user_connections, user_zone, zone_users, broadcast>>
    /\ UNCHANGED <<store_vars, response, sync_txn, pure_call, admin_vars, socket>>

----------------------------------------------------------------------------
(* routes/websocket.py: the zone broadcasts *)

get_zone_user_count(zu, zone_id) == Cardinality(dict_get(zu, zone_id, {}))

\* the ids of a set of users, as a list in ascending order
RECURSIVE id_list(_)
id_list(S) ==
    IF S = {} THEN <<>>
    ELSE LET u == CHOOSE x \in S : \A y \in S : x <= y
         IN <<u>> \o id_list(S \ {u})

\* a broadcast call for a zone begins: db_opened tells whether it has opened
\* a session, calls flips with every call
new_call(fn, zone_id, db_opened) ==
    [pc |-> "idle", fn |-> fn, zone_id |-> zone_id, todo |-> <<>>,
     db_opened |-> db_opened, calls |-> 1 - broadcast.calls]

\* broadcast_truck_location that queries before it counts the listeners
broadcast_truck_location_unguarded(zone_id) ==
    /\ broadcast.pc = "idle" /\ sender.pc = "idle"
    /\ LET todo == id_list({u \in Users : users[u].zone_id = zone_id
                                            /\ users[u].is_active})
       IN broadcast_loop(new_call("broadcast_truck_location", zone_id, TRUE),
                         user_connections, todo)
    /\ UNCHANGED <<store_vars, response, sync_txn, pure_call, admin_vars,
                   user_connections, user_zone,
                   zone_users, socket, outbox>>

\* broadcast_truck_location up to its first await
broadcast_truck_location(zone_id) ==
    /\ broadcast.pc = "idle" /\ sender.pc = "idle"
    /\ IF get_zone_user_count(zone_users, zone_id) = 0
       THEN /\ broadcast' = new_call("broadcast_truck_location", zone_id, FALSE)
            /\ UNCHANGED sender
       ELSE LET todo == id_list({u \in Users : users[u].zone_id = zone_id
                                                 /\ users[u].is_active})
            IN broadcast_loop(new_call("broadcast_truck_location", zone_id, TRUE),
                         user_connections, todo)
    /\ UNCHANGED <<store_vars, response, sync_txn, pure_call, admin_vars,
                   user_connections, user_zone,
                   zone_users, socket, outbox>>

\* ConnectionManager.broadcast_to_zone up to its first await; it opens no
\* session
broadcast_to_zone(zone_id) ==
    /\ broadcast.pc = "idle" /\ sender.pc = "idle"
    /\ broadcast_loop(new_call("broadcast_to_zone", zone_id, FALSE), user_connections,
                      id_list(dict_get(zone_users, zone_id, {})))
    /\ UNCHANGED <<store_vars, response, sync_txn, pure_call, admin_vars,
                   user_connections, user_zone,
                   zone_users, socket, outbox>>

----------------------------------------------------------------------------
(* routes/websocket.py: websocket_tracking *)

UNKNOWN_USER == NumUsers + 1

\* websocket_tracking that registers the connection before it validates
ws_connect_registers_first(c, user_id) ==
    /\ socket[c].pc = "new"
    /\ \A b \in Sockets : b < c => socket[b].pc # "new"
    /\ LET zone_id == IF user_id \in Users THEN users[user_id].zone_id ELSE NULL
       IN /\ SetRegistry(connect(Registry, c, user_id, zone_id))
          /\ IF user_id \notin Users
             THEN socket' = [socket EXCEPT ![c].pc = "closed", ![c].user_id = user_id,
                                           ![c].close_code = 4004]
             ELSE IF zone_id = NULL
             THEN socket' = [socket EXCEPT ![c].pc = "closed", ![c].user_id = user_id,
                                           ![c].close_code = 4003]
             ELSE socket' = [socket EXCEPT ![c].pc = "registered",
                                           ![c].user_id = user_id,
                                           ![c].zone_id = zone_id,
                                           ![c].fixes_before = Len(history)]
    /\ UNCHANGED <<store_vars, req_vars, admin_vars,
                   outbox, sender>>

\* websocket_tracking from the connection attempt to manager.connect
ws_connect(c, user_id) ==
    /\ socket[c].pc = "new"
    /\ \A b \in Sockets : b < c => socket[b].pc # "new"
    /\ IF user_id \notin Users
       THEN /\ socket' = [socket EXCEPT ![c].pc = "closed", ![c].user_id = user_id,
                                        ![c].close_code = 4004]
            /\ UNCHANGED <<user_connections, user_zone, zone_users>>
       ELSE IF users[user_id].zone_id = NULL
       THEN /\ socket' = [socket EXCEPT ![c].pc = "closed", ![c].user_id = user_id,
                                        ![c].close_code = 4003]
            /\ UNCHANGED <<user_connections, user_zone, zone_users>>
       ELSE /\ socket' = [socket EXCEPT ![c].pc = "registered",
                                        ![c].user_id = user_id,
                                        ![c].zone_id = users[user_id].zone_id,
                                        ![c].fixes_before = Len(history)]
            /\ SetRegistry(connect(Registry, c, user_id, users[user_id].zone_id))
    /\ UNCHANGED <<store_vars, req_vars, admin_vars,
                   outbox, sender>>

\* what a send_current_state call can come to: the state is sent; send_json
\* raises WebSocketDisconnect, which is re-raised; another exception is caught
\* and the error frame is sent, or is lost as well
StateOutcomes == {"sent", "disconnect", "error_sent", "error_lost"}

PushOutbox(c, outcome) ==
    CASE outcome = "sent"       -> Sent(c, "current_state")
      [] outcome = "error_sent" -> Sent(c, "error")
      [] OTHER                  -> outbox

\* line 175: the initial send_current_state, outside the try/finally
initial_state(c, outcome) ==
    /\ socket[c].pc = "registered"
    /\ outcome \in {"sent", "error_sent"} => CanSend(c)
    /\ outbox' = PushOutbox(c, outcome)
    /\ socket' = [socket EXCEPT ![c].pc = IF outcome = "disconnect"
                                          THEN "closed" ELSE "open"]
    /\ UNCHANGED <<store_vars, req_vars, admin_vars,
                   user_connections, user_zone, zone_users, sender>>

\* what the client sends, or "disconnect" when receive_text raises, with what
\* the answering send comes to.  "other" is a JSON object of another type,
\* "malformed" is not JSON, "non_object" is JSON that is not an object
ReceiveCases ==
    ({"ping"} \X {"sent", "disconnect"})
    \cup ({"refresh"} \X StateOutcomes)
    \cup ({"other", "malformed", "non_object", "disconnect"} \X {"sent"})

\* one round of the receive loop, lines 179-212; message.get("type") at line
\* 195 raises AttributeError for JSON that is not an object, and the finally
\* clause runs as the exception leaves the handler
ws_receive(c, message, outcome) ==
    /\ socket[c].pc = "open"
    /\ LET closes == \/ message = "disconnect"
                     \/ message = "non_object"
                     \/ message = "ping" /\ outcome # "sent"
                     \/ message = "refresh" /\ outcome = "disconnect"
           out    == CASE message = "ping" /\ outcome = "sent" -> Sent(c, "pong")
                       [] message = "refresh" -> PushOutbox(c, outcome)
                       [] OTHER -> outbox
       IN /\ out # outbox => CanSend(c)
          /\ outbox' = out
          /\ socket' = [socket EXCEPT ![c].pc = IF closes THEN "closed" ELSE @,
                                      ![c].received = message,
                                      ![c].seq = 1 - @]
          /\ IF closes
             THEN SetRegistry(disconnect(Registry, c, socket[c].user_id))
             ELSE UNCHANGED <<user_connections, user_zone, zone_users>>
    /\ UNCHANGED <<store_vars, req_vars, admin_vars,
                   sender>>

\* the client takes the oldest message off the connection
client_reads(c) ==
    /\ outbox[c] # <<>>
    /\ outbox' = [outbox EXCEPT ![c] = Tail(@)]
    /\ UNCHANGED <<store_vars, req_vars, admin_vars,
                   user_connections, user_zone, zone_users,
                   socket, sender>>

----------------------------------------------------------------------------
(* routes/users.py: the home location decides the user's zone *)

ZoneTable ==
    <<[min_lat |-> -2000, max_lat |-> 2000, min_lng |-> -2000, max_lng |-> 2000],
      [min_lat |-> 5000,  max_lat |-> 9000, min_lng |-> -2000, max_lng |-> 2000]>>

is_point_in_zone(lat, lng, zone) ==
    /\ zone.min_lat <= lat /\ lat <= zone.max_lat
    /\ zone.min_lng <= lng /\ lng <= zone.max_lng

find_zone_for_location(lat, lng) ==
    LET hits == {z \in DOMAIN ZoneTable : is_point_in_zone(lat, lng, ZoneTable[z])}
    IN IF hits = {} THEN NULL
       ELSE CHOOSE z \in hits : \A y \in hits : z <= y

HomeInputs == {<<0, 0>>, <<6000, 0>>}

update_home_location(u, home) ==
    /\ LET zone_id == find_zone_for_location(home[1], home[2])
           changed == users[u].zone_id # zone_id
       IN users' = [users EXCEPT
                       ![u].home_lat = home[1],
                       ![u].home_lng = home[2],
                       ![u].zone_id = zone_id,
                       ![u].last_alert_type = IF changed THEN "none" ELSE @,
                       ![u].last_alert_at = IF changed THEN NULL ELSE @]
    /\ UNCHANGED <<truck, history, alert_logs, today, tasks, dispatched, last_call,
                   last_sync, ws_vars, req_vars,
                   admin_vars>>

----------------------------------------------------------------------------
(* services/alerts.py and routes/tracking.py: the read path *)

\* the alert info of a tracking response; alert_type "none" stands for None
AlertInfo(should_alert, alert_type) ==
    [should_alert |-> should_alert, alert_type |-> alert_type]

get_alert_info_for_user(logs, day, user_id, user, trk, distance_meters) ==
    IF ~user.alert_enabled THEN AlertInfo(FALSE, "none")
    ELSE LET status == determine_truck_status(distance_meters, trk.is_active,
                                              trk.last_lat # NULL)
             alert_type ==
                 IF status = "here" THEN "here"
                 ELSE IF status = "arriving" THEN "arriving"
                 ELSE IF status = "approaching" /\ distance_meters <= user.alert_distance
                      THEN "approaching"
                 ELSE "none"
             existing == \E i \in LogRows(logs, user_id, TRUCK_ID, day) :
                             logs[i].alert_type = alert_type
         IN IF alert_type = "none" THEN AlertInfo(FALSE, "none")
            ELSE AlertInfo(~existing, alert_type)

\* HTTPException(status_code, ...)
HTTPException(status_code, detail) ==
    [NoResponse EXCEPT !.http = status_code, !.status = detail]

\* TrackingResponse(truck, distance, eta, status, duty, alert)
TrackingResponse(truck_info, distance, eta, status, duty, alert) ==
    [http |-> 200, status |-> status, truck |-> truck_info, distance |-> distance,
     eta |-> eta, duty |-> duty, should_alert |-> alert.should_alert,
     alert_type |-> alert.alert_type]

\* the decision tree with the home check ahead of the duty check
track_branch_home_first(user, trk) ==
    IF user.zone_id = NULL THEN 1
    ELSE IF trk.zone_id # user.zone_id THEN 2
    ELSE IF user.home_lat = NULL \/ user.home_lng = NULL THEN 5
    ELSE IF ~trk.is_active THEN 3
    ELSE IF trk.last_lat = NULL \/ trk.last_lng = NULL THEN 4
    ELSE 6

\* track_truck, lines 163-266: the first test that matches decides the answer;
\* the one truck is the zone's truck iff its zone_id is the user's
track_branch(user, trk) ==
    IF user.zone_id = NULL THEN 1
    ELSE IF trk.zone_id # user.zone_id THEN 2
    ELSE IF ~trk.is_active THEN 3
    ELSE IF trk.last_lat = NULL \/ trk.last_lng = NULL THEN 4
    ELSE IF user.home_lat = NULL \/ user.home_lng = NULL THEN 5
    ELSE 6

\* what GET /track/{user_id} answers in the given store
tracking_response(usrs, logs, day, trk, user_id) ==
    IF user_id \notin DOMAIN usrs THEN HTTPException(404, "user_not_found")
    ELSE IF ~usrs[user_id].is_active THEN HTTPException(403, "account_deactivated")
    ELSE
      LET user   == usrs[user_id]
          none   == AlertInfo(FALSE, "none")
          duty   == trk.is_active /\ trk.duty_started_at # NULL
          branch == track_branch(user, trk)
      IN CASE branch = 1 -> HTTPException(400, "no_service_zone")
           [] branch = 2 -> TrackingResponse(FALSE, NULL, FALSE, "no_truck", FALSE, none)
           [] branch = 3 -> TrackingResponse(TRUE, NULL, FALSE, "offline", FALSE, none)
           [] branch = 4 -> TrackingResponse(TRUE, NULL, FALSE, "not_started", duty, none)
           [] branch = 5 -> TrackingResponse(TRUE, NULL, FALSE, "approaching", duty, none)
           [] OTHER ->
              LET distance_meters ==
                      haversine_distance(trk.last_lat, trk.last_lng,
                                         user.home_lat, user.home_lng)
                  status == determine_truck_status(distance_meters, trk.is_active, TRUE)
                  alert  == get_alert_info_for_user(logs, day, user_id, user, trk,
                                                    distance_meters)
              IN TrackingResponse(TRUE, distance_meters, TRUE, status, duty, alert)

\* a tracking poll that also wrote the alert it reports
track_truck_logging(user_id) ==
    /\ response' = tracking_response(users, alert_logs, today, truck, user_id)
    /\ alert_logs' = IF response'.should_alert
                     THEN log_alert(alert_logs, users, today,
                                    [user_id |-> user_id, truck_id |-> TRUCK_ID,
                                     alert_type |-> response'.alert_type,
                                     distance_meters |-> response'.distance],
                                    "sound").logs
                     ELSE alert_logs
    /\ UNCHANGED <<truck, history, users, today, tasks, dispatched, last_call,
                   last_sync, ws_vars, sync_txn, broadcast, pure_call,
                   admin_vars>>

\* GET /track/{user_id}
track_truck(user_id) ==
    /\ response' = tracking_response(users, alert_logs, today, truck, user_id)
    /\ UNCHANGED <<store_vars, ws_vars, sync_txn, broadcast, pure_call,
                   admin_vars>>

\* a WebSocket message: its type and the fields of its data
Message(type, status, truck_info, distance, eta, alert) ==
    [type |-> type, status |-> status, truck |-> truck_info, distance |-> distance,
     eta |-> eta, should_alert |-> alert.should_alert, alert_type |-> alert.alert_type]

\* a push that looks at the fix before it looks at the duty flag
send_current_state_fix_first(usrs, logs, day, trk, user_id) ==
    LET none == AlertInfo(FALSE, "none")
    IN IF user_id \notin DOMAIN usrs
       THEN Message("error", "user_not_found", FALSE, NULL, FALSE, none)
       ELSE LET user == usrs[user_id]
            IN IF user.zone_id = NULL
               THEN Message("status_change", "no_zone", FALSE, NULL, FALSE, none)
               ELSE IF trk.zone_id # user.zone_id
               THEN Message("status_change", "no_truck", FALSE, NULL, FALSE, none)
               ELSE IF trk.last_lat = NULL \/ trk.last_lng = NULL
               THEN Message("location_update", "not_started", TRUE, NULL, FALSE, none)
               ELSE IF ~trk.is_active
               THEN Message("status_change", "offline", TRUE, NULL, FALSE, none)
               ELSE IF user.home_lat = NULL \/ user.home_lng = NULL
               THEN Message("location_update", "approaching", TRUE, NULL, FALSE, none)
               ELSE LET distance_meters ==
                            haversine_distance(trk.last_lat, trk.last_lng,
                                               user.home_lat, user.home_lng)
                        status == determine_truck_status(distance_meters,
                                                         trk.is_active, TRUE)
                        alert  == get_alert_info_for_user(logs, day, user_id, user,
                                                          trk, distance_meters)
                    IN Message("location_update", status, TRUE, distance_meters,
                               TRUE, alert)

\* send_current_state, websocket.py lines 218-406: the message it builds in
\* the given store; the user's is_active flag is not looked at
send_current_state(usrs, logs, day, trk, user_id) ==
    LET none == AlertInfo(FALSE, "none")
    IN IF user_id \notin DOMAIN usrs
       THEN Message("error", "user_not_found", FALSE, NULL, FALSE, none)
       ELSE LET user == usrs[user_id]
            IN IF user.zone_id = NULL
               THEN Message("status_change", "no_zone", FALSE, NULL, FALSE, none)
               ELSE IF trk.zone_id # user.zone_id
               THEN Message("status_change", "no_truck", FALSE, NULL, FALSE, none)
               ELSE IF ~trk.is_active
               THEN Message("status_change", "offline", TRUE, NULL, FALSE, none)
               ELSE IF trk.last_lat = NULL \/ trk.last_lng = NULL
               THEN Message("location_update", "not_started", TRUE, NULL, FALSE, none)
               ELSE IF user.home_lat = NULL \/ user.home_lng = NULL
               THEN Message("location_update", "approaching", TRUE, NULL, FALSE, none)
               ELSE LET distance_meters ==
                            haversine_distance(trk.last_lat, trk.last_lng,
                                               user.home_lat, user.home_lng)
                        status == determine_truck_status(distance_meters,
                                                         trk.is_active, TRUE)
                        alert  == get_alert_info_for_user(logs, day, user_id, user,
                                                          trk, distance_meters)
                    IN Message("location_update", status, TRUE, distance_meters,
                               TRUE, alert)

\* the message of a push to the user, built on its own
call_send_current_state(user_id) ==
    /\ pure_call' = [pc |-> "returned", fn |-> "send_current_state",
                     user_id |-> user_id,
                     result |-> send_current_state(users, alert_logs, today, truck,
                                                   user_id)]
    /\ UNCHANGED <<store_vars, ws_vars, response, sync_txn, broadcast, admin_vars>>

\* users in every situation the tracking decision tree distinguishes
ReadProfiles ==
    LET user == NewUser("sound", FALSE, 1000)
    IN {user,
        [user EXCEPT !.alert_distance = 1500],
        [user EXCEPT !.alert_enabled = FALSE],
        [user EXCEPT !.home_lat = NULL, !.home_lng = NULL],
        [user EXCEPT !.home_lat = 3000, !.zone_id = NULL],
        [user EXCEPT !.home_lat = 6000, !.zone_id = 2],
        [user EXCEPT !.is_active = FALSE]}

ReadFixes == AlertFixes \cup {FixAt(1200, 1)}

InitRead ==
    /\ InitStore
    /\ InitRegistry
    /\ InitAdmin
    /\ InitRequests
    /\ users \in [Users -> ReadProfiles]

NextRead ==
    \/ start_duty
    \/ stop_duty
    \/ \E loc \in ReadFixes : HistoryHasRoom /\ AllTasksIdle /\ update_location(loc)
    \/ \E k \in TaskIds : process_alerts(k)
    \/ \E u \in Users \cup {UNKNOWN_USER} : track_truck(u)
    \/ \E u \in Users \cup {UNKNOWN_USER} : ws_connect(1, u)
    \/ initial_state(1, "sent")

SpecRead == InitRead /\ [][NextRead]_vars

\* the pull endpoint and the push message beside duty changes and fixes
NextPush ==
    \/ start_duty
    \/ stop_duty
    \/ \E loc \in ReadFixes : HistoryHasRoom /\ AllTasksIdle /\ update_location(loc)
    \/ \E k \in TaskIds : process_alerts(k)
    \/ \E u \in Users : track_truck(u)
    \/ \E u \in Users : call_send_current_state(u)

SpecPush == InitRead /\ [][NextPush]_vars

----------------------------------------------------------------------------
(* tests/test_api.py: the truck approaching the user's home *)

\* a fix at the given distance from the home at (0, 0)
RouteFix(distance, speed, heading, captured_at) ==
    [lat |-> distance, lng |-> 0, speed |-> speed, heading |-> heading,
     captured_at |-> captured_at]

\* TRUCK_ROUTE, by the distance of each point to TEST_USER's home
TRUCK_ROUTE ==
    <<RouteFix(4872, 20, 135, 1), RouteFix(3654, 18, 140, 2),
      RouteFix(2436, 15, 150, 3), RouteFix(1853, 12, 160, 4),
      RouteFix(1218, 10, 170, 5), RouteFix(636, 8, 175, 6),
      RouteFix(244, 5, 180, 7),   RouteFix(31, 3, 180, 8)>>

\* test_update_user_settings: alert_distance 500, alert_type sound
InitApproach ==
    /\ InitStore
    /\ InitRegistry
    /\ InitAdmin
    /\ InitRequests
    /\ users = [u \in Users |-> NewUser("sound", FALSE, 500)]

\* test_truck_approach_simulation: the next point of the route is sent once
\* the previous one has been evaluated, and the tracking state is polled
NextApproach ==
    \/ start_duty
    \/ /\ Len(history) < Len(TRUCK_ROUTE)
       /\ AllTasksIdle
       /\ update_location(TRUCK_ROUTE[Len(history) + 1])
    \/ \E k \in TaskIds : process_alerts(k)
    \/ \E u \in Users \cup {UNKNOWN_USER} : track_truck(u)

SpecApproach == InitApproach /\ [][NextApproach]_vars

----------------------------------------------------------------------------
(* The connection registry under connects, closes, sends and zone changes *)

NextWS ==
    \/ \E c \in Sockets, u \in Users \cup {UNKNOWN_USER} : ws_connect(c, u)
    \/ \E c \in Sockets, outcome \in StateOutcomes : initial_state(c, outcome)
    \/ \E c \in Sockets : ws_receive(c, "disconnect", "sent")
    \/ \E u \in Users : send_to_user(u)
    \/ \E ok \in BOOLEAN : send_returns(ok)
    \/ \E u \in Users, home \in HomeInputs : update_home_location(u, home)

SpecWS == InitSnap /\ [][NextWS]_vars

\* a home in zone 2
MovedHome == <<6000, 0>>

\* one connection after the other with a working store: the state is sent or
\* the transport has failed
NextConn ==
    \/ \E c \in Sockets, u \in Users \cup {UNKNOWN_USER} : ws_connect(c, u)
    \/ \E c \in Sockets, outcome \in {"sent", "disconnect"} : initial_state(c, outcome)
    \/ \E c \in Sockets, case \in ReceiveCases :
          case[2] \in {"sent", "disconnect"} /\ ws_receive(c, case[1], case[2])
    \/ \E c \in Sockets : client_reads(c)

SpecConn == InitSnap /\ [][NextConn]_vars

\* the zone broadcasts beside connects, closes and moves to zone 2
NextBcast ==
    \/ \E c \in Sockets, u \in Users : ws_connect(c, u)
    \/ \E c \in Sockets, outcome \in {"sent", "error_lost"} : initial_state(c, outcome)
    \/ \E c \in Sockets : ws_receive(c, "disconnect", "sent")
    \/ \E z \in DOMAIN ZoneTable : broadcast_truck_location(z)
    \/ \E z \in DOMAIN ZoneTable : broadcast_to_zone(z)
    \/ \E ok \in BOOLEAN : send_returns(ok)
    \/ \E u \in Users : update_home_location(u, MovedHome)

SpecBcast == InitSnap /\ [][NextBcast]_vars

\* fix ingestion with sessions connected
FanFixes == {FixAt(300, 1)}

NextFan ==
    \/ \E c \in Sockets, u \in Users : ws_connect(c, u)
    \/ \E c \in Sockets, outcome \in StateOutcomes : initial_state(c, outcome)
    \/ \E loc \in FanFixes : HistoryHasRoom /\ update_location(loc)
    \/ \E k \in TaskIds : process_alerts(k)

SpecFan == InitSnap /\ [][NextFan]_vars

----------------------------------------------------------------------------
(* routes/zones.py and routes/trucks.py: the admin routes, on the zones    *)
(* table and the zone_id column of the trucks table.  Zone names, vehicle  *)
(* numbers and driver phones are taken as distinct.                        *)

Coords     == {0, 10}
ZoneFields == {"min_lat", "max_lat", "min_lng", "max_lng"}
ZoneIds    == 1..MaxZones
TruckIds   == 1..MaxTrucks

\* request bodies of POST /zones/
ZoneBodies == [ZoneFields -> Coords]

\* schemas.ZoneCreate: the validators validate_lat_range, validate_lng_range
ZoneCreate(zone) ==
    /\ zone.max_lat > zone.min_lat
    /\ zone.max_lng > zone.min_lng

\* schemas.ZoneUpdate after model_dump(exclude_unset=True): the fields the
\* request has set, here one or two of them, NULL for an explicit null
ZoneUpdates ==
    UNION {[S -> Coords \cup {NULL}] :
             S \in {T \in SUBSET ZoneFields : Cardinality(T) \in 1..2}}

\* the answer of an admin route
Answered(fn, truck_id, zone_id, http) ==
    admin_call' = [fn |-> fn, truck_id |-> truck_id, zone_id |-> zone_id,
                   http |-> http]

create_zone(zone) ==
    /\ IF ~ZoneCreate(zone)
       THEN /\ Answered("create_zone", NULL, NULL, 422)
            /\ UNCHANGED zones
       ELSE LET id == Cardinality(DOMAIN zones) + 1
            IN /\ zones' = dict_put(zones, id, zone)
               /\ Answered("create_zone", NULL, id, 201)
    /\ UNCHANGED <<store_vars, ws_vars, req_vars, trucks>>

\* the setattr loop of lines 149-152 and db.commit(); the boundary columns
\* are nullable=False
update_zone(zone_id, zone_data) ==
    /\ IF zone_id \notin DOMAIN zones
       THEN /\ Answered("update_zone", NULL, zone_id, 404)
            /\ UNCHANGED zones
       ELSE LET row == [f \in ZoneFields |->
                          IF f \in DOMAIN zone_data THEN zone_data[f]
                          ELSE zones[zone_id][f]]
            IN IF \E f \in ZoneFields : row[f] = NULL
               THEN /\ Answered("update_zone", NULL, zone_id, 500)
                    /\ UNCHANGED zones
               ELSE /\ zones' = [zones EXCEPT ![zone_id] = row]
                    /\ Answered("update_zone", NULL, zone_id, 200)
    /\ UNCHANGED <<store_vars, ws_vars, req_vars, trucks>>

\* a trucks table without the unique constraint on zone_id
trucks_zone_id_unique_dropped(rows) == TRUE

\* models.Truck.zone_id: unique=True
trucks_zone_id_unique(rows) ==
    \A a \in DOMAIN rows, b \in DOMAIN rows :
        (a # b /\ rows[a].zone_id = rows[b].zone_id) => rows[a].zone_id = NULL

\* models.Truck.zone_id: ForeignKey("zones.id"), with PRAGMA foreign_keys=ON
trucks_zone_id_fkey(rows, zs) ==
    \A a \in DOMAIN rows : rows[a].zone_id = NULL \/ rows[a].zone_id \in DOMAIN zs

\* request bodies of PUT /truck/{truck_id} after model_dump(exclude_unset=True)
TruckUpdates ==
    {EmptyDict} \cup {[f \in {"zone_id"} |-> z] : z \in ZoneIds \cup {NULL}}

create_truck(zone_id) ==
    /\ IF zone_id # NULL /\ zone_id \notin DOMAIN zones
       THEN /\ Answered("create_truck", NULL, zone_id, 404)
            /\ UNCHANGED trucks
       ELSE IF zone_id # NULL /\ \E t \in DOMAIN trucks : trucks[t].zone_id = zone_id
       THEN /\ Answered("create_truck", NULL, zone_id, 400)
            /\ UNCHANGED trucks
       ELSE LET id   == Cardinality(DOMAIN trucks) + 1
                rows == dict_put(trucks, id, [zone_id |-> zone_id])
            IN /\ trucks' = rows
               /\ Answered("create_truck", NULL, zone_id, 201)
    /\ UNCHANGED <<store_vars, ws_vars, req_vars, zones>>

\* update_truck checks the driver phone only; the zone_id it sets is checked
\* by the table's constraints when db.commit() flushes, and the
\* IntegrityError leaves the route as a 500 with nothing written
update_truck(truck_id, truck_data) ==
    /\ LET zone_id == dict_get(truck_data, "zone_id", NULL)
       IN IF truck_id \notin DOMAIN trucks
          THEN /\ Answered("update_truck", truck_id, zone_id, 404)
               /\ UNCHANGED trucks
          ELSE LET rows == [trucks EXCEPT ![truck_id] =
                              [f \in {"zone_id"} |->
                                 IF f \in DOMAIN truck_data THEN truck_data[f]
                                 ELSE trucks[truck_id][f]]]
               IN IF trucks_zone_id_unique(rows) /\ trucks_zone_id_fkey(rows, zones)
                  THEN /\ trucks' = rows
                       /\ Answered("update_truck", truck_id, zone_id, 200)
                  ELSE /\ Answered("update_truck", truck_id, zone_id, 500)
                       /\ UNCHANGED trucks
    /\ UNCHANGED <<store_vars, ws_vars, req_vars, zones>>

assign_zone(truck_id, zone_id) ==
    /\ IF truck_id \notin DOMAIN trucks \/ zone_id \notin DOMAIN zones
       THEN /\ Answered("assign_zone", truck_id, zone_id, 404)
            /\ UNCHANGED trucks
       ELSE IF \E t \in DOMAIN trucks : t # truck_id /\ trucks[t].zone_id = zone_id
       THEN /\ Answered("assign_zone", truck_id, zone_id, 400)
            /\ UNCHANGED trucks
       ELSE /\ trucks' = [trucks EXCEPT ![truck_id].zone_id = zone_id]
            /\ Answered("assign_zone", truck_id, zone_id, 200)
    /\ UNCHANGED <<store_vars, ws_vars, req_vars, zones>>

ZonesHaveRoom  == Cardinality(DOMAIN zones) < MaxZones
TrucksHaveRoom == Cardinality(DOMAIN trucks) < MaxTrucks

NextZones ==
    \/ \E zone \in ZoneBodies : ZonesHaveRoom /\ create_zone(zone)
    \/ \E zone_id \in ZoneIds, zone_data \in ZoneUpdates : update_zone(zone_id, zone_data)

SpecZones == InitSnap /\ [][NextZones]_vars

NextFleet ==
    \/ \E zone \in ZoneBodies : ZonesHaveRoom /\ create_zone(zone)
    \/ \E zone_id \in ZoneIds \cup {NULL} : TrucksHaveRoom /\ create_truck(zone_id)
    \/ \E truck_id \in TruckIds, truck_data \in TruckUpdates :
          update_truck(truck_id, truck_data)
    \/ \E truck_id \in TruckIds, zone_id \in ZoneIds : assign_zone(truck_id, zone_id)

SpecFleet == InitSnap /\ [][NextFleet]_vars

----------------------------------------------------------------------------
(* services/location.py and services/alerts.py: the decision functions     *)
(* called on their own                                                     *)

\* the distances around a tier boundary
Near(b) == (b - Slack)..(b + Slack)

Distances ==
    {0, 50, 250, 750, 1500, 5000}
    \cup Near(ALERT_DISTANCE_HERE)
    \cup Near(ALERT_DISTANCE_ARRIVING)
    \cup Near(ALERT_DISTANCE_APPROACHING)

\* UserSettingsUpdate.alert_distance: ge=50, le=5000
AlertDistances == {50, 100, 500, 750, 999, 1000, 5000}

StatusCalls ==
    [pc : {"called"}, fn : {"determine_truck_status"}, distance_meters : Distances,
     is_active : BOOLEAN, has_location : BOOLEAN, result : {"pending"}]

\* a user at home (0, 0) or without a home, a truck at the given distance
CallUser(alert_enabled, alert_distance, has_home) ==
    [NewUser("sound", FALSE, alert_distance) EXCEPT
        !.alert_enabled = alert_enabled,
        !.home_lat = IF has_home THEN 0 ELSE NULL,
        !.home_lng = IF has_home THEN 0 ELSE NULL]

CallTruck(is_active, has_fix, distance) ==
    [NewTruck EXCEPT
        !.is_active = is_active,
        !.duty_started_at = IF is_active THEN 1 ELSE NULL,
        !.last_lat = IF has_fix THEN distance ELSE NULL,
        !.last_lng = IF has_fix THEN 0 ELSE NULL]

AlertCalls ==
    {[pc |-> "called", fn |-> "check_user_alert", distance_meters |-> d,
      user |-> CallUser(en, ad, home), truck |-> CallTruck(act, fix, d),
      result |-> "pending"] :
        d \in Distances, ad \in AlertDistances,
        en \in BOOLEAN, home \in BOOLEAN, act \in BOOLEAN, fix \in BOOLEAN}

InitCalls ==
    /\ InitStore
    /\ InitRegistry
    /\ InitAdmin
    /\ response = NoResponse
    /\ sync_txn = NoSync
    /\ broadcast = NoBroadcast
    /\ users = [u \in Users |-> NewUser("sound", FALSE, 1000)]
    /\ pure_call \in StatusCalls \cup AlertCalls

call_determine_truck_status ==
    /\ pure_call.pc = "called"
    /\ pure_call.fn = "determine_truck_status"
    /\ pure_call' = [pure_call EXCEPT
                        !.pc = "returned",
                        !.result = determine_truck_status(pure_call.distance_meters,
                                                          pure_call.is_active,
                                                          pure_call.has_location)]
    /\ UNCHANGED <<store_vars, ws_vars, response, sync_txn, broadcast, admin_vars>>

\* check_user_alert on a day without Alert Log rows
call_check_user_alert ==
    /\ pure_call.pc = "called"
    /\ pure_call.fn = "check_user_alert"
    /\ pure_call' = [pure_call EXCEPT
                        !.pc = "returned",
                        !.result = check_user_alert(alert_logs, today, 1,
                                                    pure_call.user, pure_call.truck)]
    /\ UNCHANGED <<store_vars, ws_vars, response, sync_txn, broadcast, admin_vars>>

NextCalls ==
    \/ call_determine_truck_status
    \/ call_check_user_alert

SpecCalls == InitCalls /\ [][NextCalls]_vars

----------------------------------------------------------------------------
(* Properties of the alert engine, checked under Spec *)

SameLogKey(a, b) ==
    /\ a.user_id = b.user_id
    /\ a.truck_id = b.truck_id
    /\ a.alert_date = b.alert_date
    /\ a.alert_type = b.alert_type

\* C1: the Alert Log holds at most one row per (user, truck, date, tier),
\* whatever fixes, background evaluations and duty calls have run.
C1_OneRowPerKey ==
    \A i, j \in 1..Len(alert_logs) :
        i # j => ~SameLogKey(alert_logs[i], alert_logs[j])

\* two fixes in the here band were both evaluated on one day, one here row
C1_Witness ==
    /\ today = 1
    /\ Len(history) = 2
    /\ history[1].latitude = 80
    /\ history[2].latitude = 80
    /\ AllTasksIdle
    /\ Cardinality({i \in 1..Len(alert_logs) : alert_logs[i].alert_type = "here"}) = 1

\* what check_user_alert answers for user u in the current state
Decision(u) == check_user_alert(alert_logs, today, u, users[u], truck)

C2_Decision ==
    \A u \in Users :
        Decision(u).alert_type # "none" =>
            \A i \in LogRows(alert_logs, u, TRUCK_ID, today) :
                priority_map(alert_logs[i].alert_type)
                    < priority_map(Decision(u).alert_type)

C2_Added ==
    \A i \in (Len(alert_logs) + 1)..Len(alert_logs') :
        \A j \in 1..(i - 1) :
            (/\ alert_logs'[j].user_id = alert_logs'[i].user_id
             /\ alert_logs'[j].truck_id = alert_logs'[i].truck_id
             /\ alert_logs'[j].alert_date = alert_logs'[i].alert_date)
            => priority_map(alert_logs'[j].alert_type)
                   < priority_map(alert_logs'[i].alert_type)

\* C2: tier monotonicity: check_user_alert fires no tier of priority <= that
\* of a row already logged for (user, truck, today), so rows of one
\* (user, truck, date) are only ever added in strictly increasing priority.
C2_TierMonotonic == []C2_Decision /\ [][C2_Added]_vars

\* C3: send_alert is invoked at most once per (user, truck, date, tier),
\* also when every delivery attempt fails or no device token is on file.
C3_AtMostOnce == \A key \in DispatchKeys : dispatched[key] <= 1

\* the tier the truck's current distance qualifies for, for user u
QualifyingTier(u) ==
    IF \/ ~users[u].alert_enabled
       \/ ~truck.is_active \/ truck.last_lat = NULL \/ truck.last_lng = NULL
       \/ users[u].home_lat = NULL \/ users[u].home_lng = NULL
    THEN "none"
    ELSE LET distance == haversine_distance(truck.last_lat, truck.last_lng,
                                            users[u].home_lat, users[u].home_lng)
         IN alert_tier(determine_truck_status(distance, TRUE, TRUE), distance, users[u])

\* user u has a row of tier T today and its alert state was reset afterwards
\* (only an off-to-on start_duty resets it; any later row sets it again)
RestartedSince(u, T) ==
    /\ users[u].last_alert_type = "none"
    /\ \E i \in LogRows(alert_logs, u, TRUCK_ID, today) : alert_logs[i].alert_type = T

\* C4: after start_duty switched the truck on, a zone user who already has a
\* row of tier T today is alerted again at T by the next qualifying fix: once
\* that fix has been ingested and evaluated, T has been dispatched twice.
C4_ReAlertAfterStart ==
    \A u \in Users :
        (/\ last_call = "update_location"
         /\ AllTasksIdle
         /\ users[u].zone_id = truck.zone_id
         /\ QualifyingTier(u) # "none"
         /\ RestartedSince(u, QualifyingTier(u)))
        => dispatched[<<u, today, QualifyingTier(u)>>] >= 2

----------------------------------------------------------------------------
(* Properties of the cached snapshot, checked under SpecSnap *)

SnapshotIs(trk, lat, lng, speed, heading) ==
    /\ trk.last_lat = lat
    /\ trk.last_lng = lng
    /\ trk.last_speed = speed
    /\ trk.last_heading = heading

MaxCaptured(rows) ==
    CHOOSE m \in {rows[i].captured_at : i \in 1..Len(rows)} :
        \A i \in 1..Len(rows) : rows[i].captured_at <= m

\* C5: the snapshot holds the values of the recorded fix with the greatest
\* device-captured timestamp, whichever request arrived last.
C5_LastWriterWinsByTimestamp ==
    history # <<>> =>
        \E i \in 1..Len(history) :
            /\ history[i].captured_at = MaxCaptured(history)
            /\ SnapshotIs(truck, history[i].latitude, history[i].longitude,
                          history[i].speed, history[i].heading)

Count(q, x) == Cardinality({i \in 1..Len(q) : q[i] = x})

IsSyncStep ==
    /\ last_call' = "sync_offline_locations"
    /\ Len(history') > Len(history)

\* C6: a batch sync writes the values of the batch fix with the greatest
\* captured_at into the snapshot, whatever the array order, and appends one
\* history row flagged is_offline_sync per batch fix.
C6_SyncFoldsLatest ==
    [][IsSyncStep =>
        LET batch == last_sync'
            added == SubSeq(history', Len(history) + 1, Len(history'))
        IN /\ \E i \in 1..Len(batch) :
                 /\ batch[i].captured_at = MaxCaptured(batch)
                 /\ SnapshotIs(truck', batch[i].lat, batch[i].lng,
                               batch[i].speed, batch[i].heading)
           /\ SubSeq(history', 1, Len(history)) = history
           /\ Len(added) = Len(batch)
           /\ \A i \in 1..Len(batch) :
                 Count(added, HistoryRow(batch[i], TRUE)) = Count(batch, batch[i])
      ]_vars

\* a batch in captured order [3, 1, 2] has just been synced
C6_Witness ==
    /\ last_call = "sync_offline_locations"
    /\ Len(last_sync) = 3
    /\ last_sync[1].captured_at = 3
    /\ last_sync[2].captured_at = 1
    /\ last_sync[3].captured_at = 2
    /\ truck.last_lat = last_sync[1].lat
    /\ Len(history) >= 3

----------------------------------------------------------------------------
(* Properties of the connection registry and the broadcaster *)

ZoneMessages(c) == Cardinality({i \in 1..Len(outbox[c]) : outbox[c][i] = "zone_message"})

\* C7: once a zone user has open registered sessions, every update_location
\* for the zone's truck results in exactly one location_update message to each
\* of them: when the background work has finished, a session has received as
\* many zone messages as fixes were ingested since it registered.
C7_FixFansOut ==
    \A u \in DOMAIN user_connections :
        \A c \in user_connections[u] :
            (/\ socket[c].pc = "open"
             /\ user_zone[u] = truck.zone_id
             /\ AllTasksIdle
             /\ sender.pc = "idle")
            => ZoneMessages(c) = Len(history) - socket[c].fixes_before

ZonesOf(u) == {z \in DOMAIN zone_users : u \in zone_users[z]}

\* C8: a user id is a key of user_connections iff it is a key of user_zone
\* iff it belongs to exactly one zone_users set, the one of user_zone[user];
\* no map holds an empty set; a fully disconnected user is in no zone set.
C8_RegistryConsistent ==
    /\ DOMAIN user_connections = DOMAIN user_zone
    /\ \A u \in Users :
          IF u \in DOMAIN user_connections
          THEN ZonesOf(u) = {user_zone[u]}
          ELSE ZonesOf(u) = {}
    /\ \A u \in DOMAIN user_connections : user_connections[u] # {}
    /\ \A z \in DOMAIN zone_users : zone_users[z] # {}

IsRegistered(c) == \E u \in DOMAIN user_connections : c \in user_connections[u]

\* C9: a connection whose handler has ended (transport failure or client
\* disconnect at any point after registration) is no longer registered.
C9_ClosedIsUnregistered ==
    \A c \in Sockets : socket[c].pc = "closed" => ~IsRegistered(c)

\* C10: send_to_user tries every connection of its list; a failed send removes
\* exactly that connection, once the loop is over; the other connections get
\* the message and stay registered, and the user keeps its zone membership
\* unless no connection is left.
C10_SendPrunesOnlyFailed ==
    [][sender.pc = "sending" /\ sender' # sender =>
        LET ws      == Head(sender.todo)
            u       == sender.user_id
            failed  == outbox' = outbox
            dead    == {sender.dead_sockets[i] : i \in 1..Len(sender.dead_sockets)}
                       \cup (IF failed THEN {ws} ELSE {})
            before  == dict_get(user_connections, u, {})
            after   == dict_get(user_connections', u, {})
        IN /\ ~failed => outbox' = [outbox EXCEPT ![ws] = Append(@, "zone_message")]
           /\ \A v \in Users \ {u} :
                 /\ (v \in DOMAIN user_connections') = (v \in DOMAIN user_connections)
                 /\ v \in DOMAIN user_connections =>
                       user_connections'[v] = user_connections[v]
           /\ IF sender'.pc = "sending"
              THEN /\ sender'.todo = Tail(sender.todo)
                   /\ failed => ws \in {sender'.dead_sockets[i] :
                                           i \in 1..Len(sender'.dead_sockets)}
                   /\ after = before
                   /\ user_zone' = user_zone /\ zone_users' = zone_users
              ELSE /\ Len(sender.todo) = 1
                   /\ after = before \ dead
                   /\ after # {} => user_zone' = user_zone /\ zone_users' = zone_users
      ]_vars

\* a finished send_to_user has pruned one session of a user (its handler is
\* still running) while the sibling session got the message and is registered
C10_Witness ==
    /\ sender.pc = "idle"
    /\ \E a, b \in Sockets :
          /\ a # b
          /\ socket[a].user_id = socket[b].user_id
          /\ socket[a].pc \in {"registered", "open"}
          /\ socket[b].pc \in {"registered", "open"}
          /\ IsRegistered(a)
          /\ ~IsRegistered(b)
          /\ ZoneMessages(a) = 1
          /\ ZoneMessages(b) = 0

----------------------------------------------------------------------------
(* Properties of the read path, checked under SpecRead *)

TrackingNow(u) == tracking_response(users, alert_logs, today, truck, u)

NoDistanceEta(r) == r.distance = NULL /\ ~r.eta

\* C11: for a resolved (existing, active) user track_truck answers with the
\* first matching branch of: no zone, no truck, off duty, no fix, no home,
\* computed; the five early answers carry no distance and no eta, and the
\* latest answer given is one of the tree's outcomes.
C11_BranchOrder ==
    /\ \A u \in Users :
          users[u].is_active =>
            LET user == users[u]
                r    == TrackingNow(u)
            IN IF user.zone_id = NULL
               THEN /\ r.http = 400 /\ r.status = "no_service_zone"
                    /\ ~r.truck /\ NoDistanceEta(r)
               ELSE IF truck.zone_id # user.zone_id
               THEN r.http = 200 /\ r.status = "no_truck" /\ ~r.truck /\ NoDistanceEta(r)
               ELSE IF ~truck.is_active
               THEN r.http = 200 /\ r.status = "offline" /\ r.truck /\ NoDistanceEta(r)
               ELSE IF truck.last_lat = NULL \/ truck.last_lng = NULL
               THEN r.http = 200 /\ r.status = "not_started" /\ NoDistanceEta(r)
               ELSE IF user.home_lat = NULL \/ user.home_lng = NULL
               THEN r.http = 200 /\ r.status = "approaching" /\ r.truck /\ NoDistanceEta(r)
               ELSE /\ r.http = 200 /\ r.truck /\ r.eta
                    /\ r.distance = haversine_distance(truck.last_lat, truck.last_lng,
                                                       user.home_lat, user.home_lng)
                    /\ r.status = determine_truck_status(r.distance, TRUE, TRUE)
    /\ response.status = "approaching" /\ response.distance = NULL
          => \E u \in Users : users[u].home_lat = NULL

\* an off-duty truck with a stored position was polled by a user without
\* home coordinates, and the answer was offline
C11_Witness ==
    /\ ~truck.is_active
    /\ truck.last_lat # NULL
    /\ \E u \in Users : /\ users[u].home_lat = NULL
                         /\ users[u].zone_id = truck.zone_id
                         /\ response = TrackingNow(u)
    /\ response.status = "offline"

\* a step of the read path: a tracking poll got a new answer, or a socket was
\* pushed the current state
IsReadStep ==
    \/ response' # response
    \/ \E c \in Sockets : outbox'[c] = Append(outbox[c], "current_state")

\* a step of a background process_alerts task
IsAlertTaskStep ==
    \E k \in TaskIds : tasks[k].pc \in {"queued", "awaiting"} /\ tasks'[k] # tasks[k]

\* C12: a track_truck poll or a send_current_state push leaves the Alert Log
\* and every user's last_alert_type/last_alert_at as they were; the Alert Log
\* changes only in steps of the background task queued by fix ingestion.
C12_ReadPathPure ==
    [][/\ IsReadStep =>
            /\ alert_logs' = alert_logs
            /\ \A u \in Users :
                  /\ users'[u].last_alert_type = users[u].last_alert_type
                  /\ users'[u].last_alert_at = users[u].last_alert_at
       /\ alert_logs' # alert_logs => IsAlertTaskStep
      ]_vars

\* a poll answered that the here alert should sound, a socket was pushed the
\* state, and the log is still empty: the fix has not been evaluated yet
C12_Witness ==
    /\ response.should_alert
    /\ response.alert_type = "here"
    /\ outbox[1] = <<"current_state">>
    /\ alert_logs = <<>>
    /\ \E k \in TaskIds : tasks[k].pc = "queued"

\* C13: for a zone user with a home and an on-duty truck with a fix, the
\* read-only alert info says should_alert with tier T exactly when
\* check_user_alert fires tier T in the same state.
C13_ReadOnlyMatchesEngine ==
    \A u \in Users :
        (/\ users[u].is_active
         /\ users[u].zone_id = truck.zone_id
         /\ users[u].home_lat # NULL /\ users[u].home_lng # NULL
         /\ truck.is_active
         /\ truck.last_lat # NULL /\ truck.last_lng # NULL)
        => LET distance == haversine_distance(truck.last_lat, truck.last_lng,
                                              users[u].home_lat, users[u].home_lng)
               info     == get_alert_info_for_user(alert_logs, today, u, users[u],
                                                   truck, distance)
           IN \A T \in Tiers :
                 (info.should_alert /\ info.alert_type = T)
                     <=> (Decision(u).alert_type = T)

----------------------------------------------------------------------------
(* The end-to-end approach, checked under SpecApproach *)

RowsOfTier(u, T) ==
    {i \in LogRows(alert_logs, u, TRUCK_ID, today) : alert_logs[i].alert_type = T}

\* the first recorded fix whose status for a home at (0, 0) is T
FirstInBand(T) ==
    CHOOSE i \in 1..Len(history) :
        /\ determine_truck_status(history[i].latitude, TRUE, TRUE) = T
        /\ \A j \in 1..(i - 1) :
              determine_truck_status(history[j].latitude, TRUE, TRUE) # T

\* C14: on the approach from far away down to the home, the status goes
\* approaching, ..., approaching, arriving, here, and once the route has been
\* ingested and evaluated the user has exactly three Alert Log rows for the
\* day, one per tier, each written at the first fix of its band.
C14_ApproachLogsThreeTiers ==
    /\ response.http = 200 /\ response.distance # NULL =>
          response.status = (IF response.distance >= 500 THEN "approaching"
                             ELSE IF response.distance >= 100 THEN "arriving"
                             ELSE "here")
    /\ (Len(history) = Len(TRUCK_ROUTE) /\ AllTasksIdle) =>
          \A u \in Users :
              /\ Cardinality(LogRows(alert_logs, u, TRUCK_ID, today)) = 3
              /\ \A T \in Tiers :
                    /\ Cardinality(RowsOfTier(u, T)) = 1
                    /\ \A i \in RowsOfTier(u, T) :
                          alert_logs[i].distance_meters = history[FirstInBand(T)].latitude

----------------------------------------------------------------------------
(* Properties of the truck routes, checked under Spec *)

\* a step of start_duty or stop_duty: no other step sets last_call to these
\* values or keeps last_call, the tasks and the date all unchanged
IsDutyStep(names) ==
    /\ last_call' \in names
    /\ tasks' = tasks
    /\ today' = today

StoreUntouched ==
    /\ truck' = truck
    /\ history' = history
    /\ users' = users
    /\ alert_logs' = alert_logs

\* C15: start_duty on a truck on duty and stop_duty on a truck off duty answer
\* without error and leave the truck row (is_active, duty_started_at,
\* snapshot), the users, the history and the Alert Log unchanged.
C15_DutyIdempotent ==
    [][/\ (IsDutyStep({"start_duty", "start_duty_already"}) /\ truck.is_active)
            => StoreUntouched /\ last_call' = "start_duty_already"
       /\ (IsDutyStep({"stop_duty", "stop_duty_already"}) /\ ~truck.is_active)
            => StoreUntouched /\ last_call' = "stop_duty_already"
      ]_vars

\* start_duty has just answered "Already on duty" on a later day than the
\* duty started, to a truck whose zone user carries a last alert
C15_Witness ==
    /\ last_call = "start_duty_already"
    /\ truck.is_active
    /\ truck.duty_started_at < today
    /\ \E u \in Users : users[u].last_alert_type # "none"

----------------------------------------------------------------------------
(* The snapshot under a batch sync concurrent with live fixes: SpecTorn *)

\* C16: in every committed state, last_lat, last_lng and last_update are
\* null together, and the snapshot's lat, lng, speed and heading are those of
\* one recorded fix.
C16_NoTornSnapshot ==
    /\ (truck.last_lat = NULL) = (truck.last_lng = NULL)
    /\ (truck.last_lat = NULL) = (truck.last_update = NULL)
    /\ truck.last_lat # NULL =>
          \E i \in 1..Len(history) :
              SnapshotIs(truck, history[i].latitude, history[i].longitude,
                         history[i].speed, history[i].heading)

----------------------------------------------------------------------------
(* Fix ingestion, checked under SpecSnap *)

IsFixStep == last_call' = "update_location" /\ history' # history

\* C17: after update_location the truck is on duty, the snapshot holds the
\* fix, and one history row with the fix's captured_at and is_offline_sync
\* false has been appended; a truck that was off duty got duty_started_at set,
\* one on duty kept it; ingestion leaves the earlier history rows as they are.
C17_FixIngested ==
    [][/\ IsFixStep =>
            /\ Len(history') = Len(history) + 1
            /\ LET row == history'[Len(history')]
               IN /\ \E loc \in SnapFixes : row = HistoryRow(loc, FALSE)
                  /\ SnapshotIs(truck', row.latitude, row.longitude, row.speed,
                                row.heading)
            /\ truck'.is_active
            /\ truck'.duty_started_at =
                  (IF truck.is_active THEN truck.duty_started_at ELSE today)
            /\ truck'.duty_started_at # NULL
       /\ history' # history => SubSeq(history', 1, Len(history)) = history
      ]_vars

\* a live fix has just been ingested after a batch sync: it is the snapshot
\* and the newest history row, although its captured_at is the older one
C17_Witness ==
    /\ last_call = "update_location"
    /\ Len(history) = 2
    /\ history[1].is_offline_sync
    /\ ~history[2].is_offline_sync
    /\ history[2].captured_at < history[1].captured_at
    /\ truck.is_active
    /\ truck.last_lat = history[2].latitude

----------------------------------------------------------------------------
(* The zone broadcasts, checked under SpecBcast *)

IsBroadcastCall == broadcast'.calls # broadcast.calls

\* C18: a broadcast_truck_location or broadcast_to_zone call for a zone for
\* which zone_users holds no user sends no message, opens no session and is
\* over at once.
C18_NoListenersNoWork ==
    [][(IsBroadcastCall /\ dict_get(zone_users, broadcast'.zone_id, {}) = {})
          => /\ outbox' = outbox
             /\ ~broadcast'.db_opened
             /\ broadcast'.pc = "idle"
             /\ sender' = sender
      ]_vars

\* broadcast_truck_location was called for zone 1 and skipped its work while
\* the only registered user listens in zone 2
C18_Witness ==
    /\ broadcast.fn = "broadcast_truck_location"
    /\ broadcast.zone_id = 1
    /\ ~broadcast.db_opened
    /\ broadcast.pc = "idle"
    /\ DOMAIN zone_users = {2}
    /\ \E c \in Sockets : socket[c].pc = "open" /\ IsRegistered(c)

----------------------------------------------------------------------------
(* The connection handler, checked under SpecRead and SpecConn *)

\* C19: a connection attempt for an unknown user id is closed with code 4004,
\* one for a user without zone with code 4003; such a connection is sent
\* nothing, and neither it nor its user id enters a registry map.
C19_RejectedAtConnect ==
    \A c \in Sockets :
        LET u == socket[c].user_id
        IN (u # NULL /\ (u \notin Users \/ users[u].zone_id = NULL))
           => /\ socket[c].pc = "closed"
              /\ socket[c].close_code = (IF u \notin Users THEN 4004 ELSE 4003)
              /\ outbox[c] = <<>>
              /\ ~IsRegistered(c)
              /\ u \notin DOMAIN user_connections
              /\ u \notin DOMAIN user_zone
              /\ \A z \in DOMAIN zone_users : u \notin zone_users[z]

\* the connection of a user without zone has been closed with 4003
C19_Witness ==
    \E c \in Sockets :
        /\ socket[c].user_id \in Users
        /\ users[socket[c].user_id].zone_id = NULL
        /\ socket[c].pc = "closed"
        /\ socket[c].close_code = 4003

RegistryUnchanged ==
    /\ user_connections' = user_connections
    /\ user_zone' = user_zone
    /\ zone_users' = zone_users

\* C20: the step that opens a registered connection sends the full state as
\* its first message; on an open connection a ping is answered by one pong
\* and a refresh by one full-state push, unless the transport has failed and
\* the handler ends; any other inbound message sends nothing, leaves the
\* connection open and leaves the registry unchanged.
C20_ReceiveLoop ==
    [][\A c \in Sockets :
          /\ (socket[c].pc = "registered" /\ socket'[c].pc = "open")
                => outbox[c] = <<>> /\ outbox'[c] = <<"current_state">>
          /\ (socket[c].pc = "open" /\ socket'[c].seq # socket[c].seq)
                => LET m == socket'[c].received
                   IN CASE m = "ping" ->
                             \/ socket'[c].pc = "closed"
                             \/ /\ outbox'[c] = Append(outbox[c], "pong")
                                /\ socket'[c].pc = "open" /\ RegistryUnchanged
                        [] m = "refresh" ->
                             \/ socket'[c].pc = "closed"
                             \/ /\ outbox'[c] = Append(outbox[c], "current_state")
                                /\ socket'[c].pc = "open" /\ RegistryUnchanged
                        [] m = "disconnect" -> socket'[c].pc = "closed"
                        [] OTHER ->
                             /\ outbox'[c] = outbox[c]
                             /\ socket'[c].pc = "open"
                             /\ RegistryUnchanged
      ]_vars

----------------------------------------------------------------------------
(* The decision functions, checked under SpecCalls *)

Returned(fn) == pure_call.fn = fn /\ pure_call.pc = "returned"

C22_TierBands ==
    Returned("check_user_alert") =>
        LET d    == pure_call.distance_meters
            u    == pure_call.user
            t    == pure_call.truck
            tier == pure_call.result.alert_type
            eligible == /\ u.alert_enabled
                        /\ t.is_active
                        /\ t.last_lat # NULL /\ t.last_lng # NULL
                        /\ u.home_lat # NULL /\ u.home_lng # NULL
        IN /\ tier \in Tiers \cup {"none"}
           /\ ~eligible => tier = "none"
           /\ eligible =>
                /\ tier = "here" <=> d < 100
                /\ tier = "arriving" <=> (100 <= d /\ d < 500)
                /\ tier = "approaching" <=>
                      (500 <= d /\ d < 1000 /\ d <= u.alert_distance)
                /\ tier # "none" => pure_call.result.distance_meters = d

C22_Witness ==
    /\ Returned("check_user_alert")
    /\ pure_call.result.alert_type = "approaching"
    /\ pure_call.distance_meters = pure_call.user.alert_distance
    /\ alert_logs = <<>>

----------------------------------------------------------------------------
(* Batch syncs with fixes that fail validation, checked under SpecBatch *)

IsSyncRequest ==
    /\ last_call' \in {"sync_offline_locations", "sync_offline_locations_422"}
    /\ last_sync' # <<>>
    /\ \/ last_call' # last_call
       \/ last_sync' # last_sync
       \/ history' # history

\* C23: a batch sync with fixes that fail validation is not rejected: it
\* appends one history row per valid fix of the batch, and none for the
\* invalid ones.
C23_InvalidFixSkipped ==
    [][IsSyncRequest =>
        LET batch == last_sync'
            valid == SelectSeq(batch, LocationUpdate)
            added == SubSeq(history', Len(history) + 1, Len(history'))
        IN /\ last_call' = "sync_offline_locations"
           /\ SubSeq(history', 1, Len(history)) = history
           /\ Len(added) = Len(valid)
           /\ \A i \in 1..Len(valid) :
                 Count(added, HistoryRow(valid[i], TRUE)) = Count(valid, valid[i])
      ]_vars

----------------------------------------------------------------------------
(* Ingestion and delivery, checked under Spec *)

\* C24: the step in which update_location commits the fix and answers only
\* queues the alert task: no alert has been evaluated, dispatched or logged
\* in it; and no step of an alert task, whatever the providers answer,
\* changes the snapshot, the history or the answer given.
C24_AckBeforeAlerts ==
    [][/\ IsFixStep =>
            /\ alert_logs' = alert_logs
            /\ dispatched' = dispatched
            /\ users' = users
            /\ \E k \in TaskIds :
                  /\ tasks[k].pc = "idle"
                  /\ tasks'[k] = [pc |-> "queued", alerts |-> <<>>, failed |-> FALSE]
                  /\ \A j \in TaskIds \ {k} : tasks'[j] = tasks[j]
       /\ IsAlertTaskStep =>
            /\ truck' = truck
            /\ history' = history
            /\ last_call' = last_call
      ]_vars

\* a fix has been acknowledged and stored while the delivery of the alert of
\* an earlier fix is still waiting for its provider
C24_Witness ==
    /\ last_call = "update_location"
    /\ Len(history) = 2
    /\ truck.last_lat = history[2].latitude
    /\ \E k \in TaskIds : tasks[k].pc = "awaiting"
    /\ \E k \in TaskIds : tasks[k].pc = "queued"
    /\ alert_logs = <<>>

----------------------------------------------------------------------------
(* The admin routes, checked under SpecFleet and SpecZones *)

OneTruckPerZone ==
    \A a \in DOMAIN trucks, b \in DOMAIN trucks :
        (a # b /\ trucks[a].zone_id # NULL) => trucks[a].zone_id # trucks[b].zone_id

\* a truck route has been asked to put a truck into a zone that another truck
\* holds
AsksForOccupiedZone ==
    /\ admin_call' # admin_call
    /\ admin_call'.fn \in {"create_truck", "update_truck", "assign_zone"}
    /\ admin_call'.zone_id # NULL
    /\ \E t \in DOMAIN trucks :
          t # admin_call'.truck_id /\ trucks[t].zone_id = admin_call'.zone_id

\* C25: no zone ever has two trucks, and a create_truck, update_truck or
\* assign_zone call for a zone that another truck holds is answered with an
\* error and leaves every assignment as it was.
C25_OneTruckPerZone ==
    /\ []OneTruckPerZone
    /\ [][AsksForOccupiedZone =>
             /\ trucks' = trucks
             /\ admin_call'.http >= 400]_vars

\* update_truck has been refused the zone the other truck holds
C25_Witness ==
    /\ admin_call.fn = "update_truck"
    /\ admin_call.http = 500
    /\ admin_call.truck_id \in DOMAIN trucks
    /\ \E t \in DOMAIN trucks :
          t # admin_call.truck_id /\ trucks[t].zone_id = admin_call.zone_id

\* C26: every stored zone has max_lat > min_lat and max_lng > min_lng.
C26_ZoneBoundsOrdered ==
    \A z \in DOMAIN zones :
        /\ zones[z].max_lat > zones[z].min_lat
        /\ zones[z].max_lng > zones[z].min_lng

----------------------------------------------------------------------------
(* The push message and the pull answer, checked under SpecPush *)

SameState(msg, r) ==
    /\ msg.type \in {"status_change", "location_update"}
    /\ msg.status = r.status
    /\ (msg.distance # NULL) <=> (r.distance # NULL)
    /\ msg.eta <=> r.eta
    /\ msg.distance = r.distance

\* C27: for an existing, active user with a zone, the message send_current_state
\* builds carries the status track_truck answers in the same store, and
\* carries a distance and an eta iff the answer does; checked at every push
\* against the answer and at every poll against the message.
C27_PushMatchesPull ==
    [][/\ \A u \in Users :
            (/\ pure_call' # pure_call
             /\ pure_call'.fn = "send_current_state"
             /\ pure_call'.user_id = u
             /\ users[u].is_active
             /\ users[u].zone_id # NULL)
            => SameState(pure_call'.result,
                         tracking_response(users, alert_logs, today, truck, u))
       /\ \A u \in Users :
            (/\ response' # response
             /\ response'.http = 200
             /\ response' = tracking_response(users, alert_logs, today, truck, u))
            => SameState(send_current_state(users, alert_logs, today, truck, u),
                         response')
      ]_vars

\* the same store has been pushed and polled with the truck arriving
C27_Witness ==
    /\ pure_call.fn = "send_current_state"
    /\ pure_call.result.status = "arriving"
    /\ pure_call.result.distance = 303
    /\ response.http = 200
    /\ response.status = "arriving"
    /\ response.distance = 303
    /\ truck.is_active /\ truck.last_lat = 300

----------------------------------------------------------------------------
(* Interleaved alert tasks, checked under Spec *)

\* a task has been ended by the IntegrityError of a second row for the same
\* (user, truck, date, tier): the tier went out twice
DuplicateKeyFailure == \E k \in TaskIds : tasks[k].failed

\* the rows a step adds for a user are of a higher tier than the user's rows
\* of that day before them
NoLowerTierAfterHigher ==
    \A i \in (Len(alert_logs) + 1)..Len(alert_logs') :
        \A j \in 1..(i - 1) :
            (/\ alert_logs'[j].user_id = alert_logs'[i].user_id
             /\ alert_logs'[j].alert_date = alert_logs'[i].alert_date)
            => priority_map(alert_logs'[i].alert_type)
                   > priority_map(alert_logs'[j].alert_type)

\* C28: with the process_alerts tasks of consecutive fixes interleaved at the
\* awaits of delivery, no task runs into a duplicate-key failure (no tier goes
\* out twice, no task gives up its remaining alerts) and no user gets a lower
\* tier after a higher one on the same day.
C28_InterleavedTasks ==
    /\ []~DuplicateKeyFailure
    /\ [][NoLowerTierAfterHigher]_vars

----------------------------------------------------------------------------
(* Duty changes, checked under SpecDuty *)

\* C29: a truck on duty has a duty_started_at, whether start_duty, a live fix
\* or a batch sync put it on duty; and the step that takes it off duty is
\* stop_duty and changes nothing of the truck but is_active.
C29_DutyStartKept ==
    /\ [](truck.is_active => truck.duty_started_at # NULL)
    /\ [][(truck.is_active /\ ~truck'.is_active) =>
             /\ last_call' = "stop_duty"
             /\ truck' = [truck EXCEPT !.is_active = FALSE]]_vars

\* a truck put on duty by a batch sync has been stopped: it keeps the day its
\* duty began and the snapshot of the batch
C29_Witness ==
    /\ last_call = "stop_duty"
    /\ ~truck.is_active
    /\ truck.duty_started_at = today
    /\ Len(history) = 2
    /\ \A i \in 1..2 : history[i].is_offline_sync
    /\ truck.last_lat # NULL /\ truck.last_update = today

IsExplicitStart ==
    /\ last_call' = "start_duty"
    /\ ~truck.is_active /\ truck'.is_active

IsAutoActivation ==
    /\ last_call' \in {"update_location", "sync_offline_locations"}
    /\ ~truck.is_active /\ truck'.is_active

LastAlertCleared(u) ==
    /\ users[u].last_alert_type # "none"
    /\ users'[u].last_alert_type = "none"

\* C30: a start_duty that takes the truck from off to on duty nulls
\* last_alert_type and last_alert_at of exactly the users of the truck's zone
\* and leaves the other users and the Alert Log as they are; a live fix or a
\* batch sync that puts the truck on duty leaves every user and the Alert Log
\* as they are; and no other step nulls a user's last alert.
C30_ResetOnlyOnStart ==
    [][/\ IsExplicitStart =>
            /\ \A u \in Users :
                  users'[u] = IF users[u].zone_id = truck.zone_id
                              THEN [users[u] EXCEPT !.last_alert_type = "none",
                                                    !.last_alert_at = NULL]
                              ELSE users[u]
            /\ alert_logs' = alert_logs
       /\ IsAutoActivation =>
            /\ users' = users
            /\ alert_logs' = alert_logs
       /\ (\E u \in Users : LastAlertCleared(u)) => IsExplicitStart
      ]_vars

\* the truck has been restarted after alerting a user of its zone: the user's
\* last alert is null again and the row of the alert is still in the log
C30_Witness ==
    /\ last_call = "start_duty"
    /\ truck.is_active
    /\ \E u \in Users :
          /\ users[u].zone_id = truck.zone_id
          /\ users[u].last_alert_type = "none"
          /\ \E i \in 1..Len(alert_logs) : alert_logs[i].user_id = u

====
